---- MODULE Spec2Model ----
(***************************************************************************)
(* A model of the xacro -> URDF converter of fusion2urdf                   *)
(* (src/URDF_Exporter/utils/xacro2unity.py).                               *)
(*                                                                         *)
(* Python strings are modelled as sequences of one-character strings, so   *)
(* that the regular expressions of the two lexers, float() and str() can   *)
(* be computed character by character.                                     *)
(*                                                                         *)
(* Specifications:                                                         *)
(*   SpecText   one call of eval_text on every text and symbol table       *)
(*   SpecSubst  two passes of eval_all over every tree and symbol table    *)
(*   Spec       convert_xacro_to_urdf, statement by statement              *)
(*   FairSpec   Spec with process_includes run to its end                  *)
(***************************************************************************)
EXTENDS Integers, Sequences, FiniteSets, TLC

(***************************************************************************)
(* Characters                                                              *)
(***************************************************************************)

\* The printable ASCII characters in code-point order (32 .. 126); the grave
\* accent (96) is written GRAVE.
Ascii ==
  << " ", "!", "\"", "#", "$", "%", "&", "'", "(", ")", "*", "+", ",", "-",
     ".", "/", "0", "1", "2", "3", "4", "5", "6", "7", "8", "9", ":", ";",
     "<", "=", ">", "?", "@", "A", "B", "C", "D", "E", "F", "G", "H", "I",
     "J", "K", "L", "M", "N", "O", "P", "Q", "R", "S", "T", "U", "V", "W",
     "X", "Y", "Z", "[", "\\", "]", "^", "_", "GRAVE", "a", "b", "c", "d", "e",
     "f", "g", "h", "i", "j", "k", "l", "m", "n", "o", "p", "q", "r", "s",
     "t", "u", "v", "w", "x", "y", "z", "{", "|", "}", "~" >>

\* Position of a character in Ascii: Python compares strings by code point.
\* A character outside the table (the opaque text of an object's repr)
\* sorts after all of them.
Ord(c) ==
  IF \E i \in 1..Len(Ascii) : Ascii[i] = c
  THEN CHOOSE i \in 1..Len(Ascii) : Ascii[i] = c
  ELSE Len(Ascii) + 1

DigitChars == SubSeq(Ascii, 17, 26)
Digits == {DigitChars[i] : i \in 1..10}
UpperLetters == {Ascii[i] : i \in 34..59}
LowerLetters == {Ascii[i] : i \in 66..91}
\* \s of the re module, for ASCII
Whitespace == {" ", "\t", "\n", "\r", "\f"}
\* [a-zA-Z_]
SymbolStart == UpperLetters \cup LowerLetters \cup {"_"}
\* \w
WordChars == SymbolStart \cup Digits

SetMax(S) == CHOOSE m \in S : \A n \in S : n <= m

Take(s, n) == SubSeq(s, 1, n)
Drop(s, n) == SubSeq(s, n + 1, Len(s))

\* Length of the longest prefix of s made of characters of the class C.
RunLen(s, C) == SetMax({n \in 0..Len(s) : \A i \in 1..n : s[i] \in C})

\* s < t in Python's string order.
RECURSIVE StrLess(_, _)
StrLess(s, t) ==
  IF t = <<>> THEN FALSE
  ELSE IF s = <<>> THEN TRUE
  ELSE IF Ord(s[1]) # Ord(t[1]) THEN Ord(s[1]) < Ord(t[1])
  ELSE StrLess(Tail(s), Tail(t))

StartsWith(s, prefix) ==
  Len(s) >= Len(prefix) /\ Take(s, Len(prefix)) = prefix

(***************************************************************************)
(* float(x) and str(float), on strings                                     *)
(***************************************************************************)

DigitVal(c) == CHOOSE d \in 0..9 : DigitChars[d + 1] = c

RECURSIVE NatVal(_)
NatVal(ds) ==
  IF ds = <<>> THEN 0
  ELSE NatVal(Take(ds, Len(ds) - 1)) * 10 + DigitVal(ds[Len(ds)])

RECURSIVE NatStr(_)
NatStr(n) ==
  IF n < 10 THEN <<DigitChars[n + 1]>>
  ELSE NatStr(n \div 10) \o <<DigitChars[(n % 10) + 1]>>

RECURSIVE Zeros(_)
Zeros(n) == IF n <= 0 THEN <<>> ELSE <<"0">> \o Zeros(n - 1)

\* str.strip() as float() applies it before parsing
RECURSIVE StripLeft(_)
StripLeft(s) ==
  IF s # <<>> /\ s[1] \in Whitespace THEN StripLeft(Tail(s)) ELSE s

RECURSIVE StripRight(_)
StripRight(s) ==
  IF s # <<>> /\ s[Len(s)] \in Whitespace
  THEN StripRight(Take(s, Len(s) - 1)) ELSE s

\* Case folding of the letters float() reads case-insensitively.
Lower(c) ==
  IF c \in UpperLetters THEN Ascii[Ord(c) + 32] ELSE c

NotAFloat == [ok |-> FALSE, kind |-> "none", neg |-> FALSE, digits |-> <<>>, decpt |-> 0]
Infinity(neg) == [ok |-> TRUE, kind |-> "inf", neg |-> neg, digits |-> <<>>, decpt |-> 0]
NaN == [ok |-> TRUE, kind |-> "nan", neg |-> FALSE, digits |-> <<>>, decpt |-> 0]
Zero(neg) == [ok |-> TRUE, kind |-> "zero", neg |-> neg, digits |-> <<>>, decpt |-> 0]

\* Largest finite double, 1.7976931348623157e308, as digits; one more ulp
\* rounds to infinity.
MaxDoubleDigits ==
  << "1", "7", "9", "7", "6", "9", "3", "1", "3", "4", "8", "6", "2", "3",
     "1", "5", "8" >>

\* The double 0.d1d2...dn * 10^decpt with its digits normalised: no leading
\* and no trailing zero.  An overflowing value is infinity, an underflowing
\* one is zero.
RECURSIVE Normalise(_, _, _)
Normalise(neg, ds, decpt) ==
  IF ds = <<>> THEN Zero(neg)
  ELSE IF ds[1] = "0" THEN Normalise(neg, Tail(ds), decpt - 1)
  ELSE IF ds[Len(ds)] = "0" THEN Normalise(neg, Take(ds, Len(ds) - 1), decpt)
  ELSE IF decpt > 309 \/ (decpt = 309 /\ ~StrLess(ds, MaxDoubleDigits))
  THEN Infinity(neg)
  ELSE IF decpt < -323 THEN Zero(neg)
  ELSE [ok |-> TRUE, kind |-> "finite", neg |-> neg, digits |-> ds, decpt |-> decpt]

\* The parts of a decimal literal: the digits before the point, the digits
\* after it, and what follows the mantissa.
IntDigits(body) == Take(body, RunLen(body, Digits))
AfterInt(body) == Drop(body, RunLen(body, Digits))
HasPoint(a) == a # <<>> /\ a[1] = "."
FracDigits(a) == IF HasPoint(a) THEN Take(Tail(a), RunLen(Tail(a), Digits)) ELSE <<>>
AfterFrac(a) == IF HasPoint(a) THEN Drop(Tail(a), RunLen(Tail(a), Digits)) ELSE a

\* The exponent part [eE][-+]?\d+ : e is what follows the mantissa.
ExpSigned(e) == Len(e) >= 2 /\ e[2] \in {"+", "-"}
ExpDigits(e) == IF ExpSigned(e) THEN Drop(e, 2) ELSE Drop(e, 1)
ExpWellFormed(e) ==
  \/ e = <<>>
  \/ /\ e[1] \in {"e", "E"}
     /\ ExpDigits(e) # <<>>
     /\ \A i \in 1..Len(ExpDigits(e)) : ExpDigits(e)[i] \in Digits
ExpValue(e) ==
  IF e = <<>> THEN 0
  ELSE IF ExpSigned(e) /\ e[2] = "-" THEN 0 - NatVal(ExpDigits(e))
  ELSE NatVal(ExpDigits(e))

FloatOfParts(neg, int, frac, e) ==
  IF Len(int) + Len(frac) >= 1 /\ ExpWellFormed(e)
  THEN Normalise(neg, int \o frac, Len(int) + ExpValue(e))
  ELSE NotAFloat

FloatOfMantissa(neg, int, a) == FloatOfParts(neg, int, FracDigits(a), AfterFrac(a))

Lowered(body) == [i \in 1..Len(body) |-> Lower(body[i])]

FloatOfBody(neg, body) ==
  IF Lowered(body) \in {<<"i", "n", "f">>, <<"i", "n", "f", "i", "n", "i", "t", "y">>}
  THEN Infinity(neg)
  ELSE IF Lowered(body) = <<"n", "a", "n">> THEN NaN
  ELSE FloatOfMantissa(neg, IntDigits(body), AfterInt(body))

HasSign(t) == t # <<>> /\ t[1] \in {"+", "-"}

FloatOfStripped(t) ==
  FloatOfBody(HasSign(t) /\ t[1] = "-", IF HasSign(t) THEN Tail(t) ELSE t)

\* float(s) for a string s: optional whitespace around, an optional sign,
\* then inf / infinity / nan in any case, or a decimal number
\* digits[.digits] | .digits with an optional exponent.  ok = FALSE is
\* ValueError.  (Digit-group underscores, "1_0", are not modelled: no value
\* of the model carries one.)
float(s) == FloatOfStripped(StripRight(StripLeft(s)))

\* str(f) of a float f (repr: the shortest digits that round-trip, which for
\* a decimal of at most 15 significant digits are its own digits; fixed
\* notation when -4 < decpt <= 16, exponent notation otherwise).
float_str(f) ==
  LET sign == IF f.neg THEN <<"-">> ELSE <<>>
      d == f.digits
      n == Len(d)
      e == f.decpt - 1
      edigits == NatStr(IF e < 0 THEN 0 - e ELSE e)
  IN  CASE f.kind = "nan" -> <<"n", "a", "n">>
        [] f.kind = "inf" -> sign \o <<"i", "n", "f">>
        [] f.kind = "zero" -> sign \o <<"0", ".", "0">>
        [] OTHER ->
             IF f.decpt > -4 /\ f.decpt <= 16
             THEN IF f.decpt <= 0
                  THEN sign \o <<"0", ".">> \o Zeros(0 - f.decpt) \o d
                  ELSE IF f.decpt >= n
                  THEN sign \o d \o Zeros(f.decpt - n) \o <<".", "0">>
                  ELSE sign \o Take(d, f.decpt) \o <<".">> \o Drop(d, f.decpt)
             ELSE sign \o <<d[1]>>
                  \o (IF n > 1 THEN <<".">> \o Tail(d) ELSE <<>>)
                  \o <<"e">> \o (IF e < 0 THEN <<"-">> ELSE <<"+">>)
                  \o (IF Len(edigits) < 2 THEN <<"0">> ELSE <<>>) \o edigits

(***************************************************************************)
(* Symbol table (class Table)                                              *)
(***************************************************************************)

\* A property value: the literal string of a value attribute, or the
\* property element itself when it carries none.  str(element) is the
\* object's repr, "<DOM Element: y at 0x...>": what stands between the
\* angle brackets is one opaque character here.
ElementRepr == <<"<", "DOM Element", ">">>
StrValue(s) == [isElement |-> FALSE, str |-> s]
ElementValue == [isElement |-> TRUE, str |-> ElementRepr]

\* Table(parent): table is a function from names to values.
NewTable == [table |-> <<>>, hasParent |-> FALSE, parent |-> <<>>]
ChildTable(p) == [table |-> <<>>, hasParent |-> TRUE, parent |-> p]

\* Table.__contains__
RECURSIVE Table_contains(_, _)
Table_contains(tbl, key) ==
  \/ key \in DOMAIN tbl.table
  \/ tbl.hasParent /\ Table_contains(tbl.parent, key)

\* Table.__getitem__; defined only where no KeyError is raised, which is
\* where Table_raises is false.
RECURSIVE Table_getitem(_, _)
Table_getitem(tbl, key) ==
  IF key \in DOMAIN tbl.table THEN tbl.table[key]
  ELSE Table_getitem(tbl.parent, key)

RECURSIVE Table_raises(_, _)
Table_raises(tbl, key) ==
  IF key \in DOMAIN tbl.table THEN FALSE
  ELSE IF tbl.hasParent THEN Table_raises(tbl.parent, key)
  ELSE TRUE

\* Table.__setitem__
Table_setitem(tbl, key, value) ==
  [tbl EXCEPT !.table =
     [k \in (DOMAIN tbl.table) \cup {key} |->
        IF k = key THEN value ELSE tbl.table[k]]]

(***************************************************************************)
(* Lexer (class QuickLexer)                                                *)
(***************************************************************************)

\* re.match(pattern, s): the length of the match at the start of s, 0 when
\* there is none (no pattern of the two lexers matches the empty string).

\* EXPR = \$\{[^\}]*\}
MatchEXPR(s) ==
  IF Len(s) >= 3 /\ s[1] = "$" /\ s[2] = "{" /\ \E j \in 3..Len(s) : s[j] = "}"
  THEN CHOOSE j \in 3..Len(s) : s[j] = "}" /\ \A k \in 3..(j - 1) : s[k] # "}"
  ELSE 0

\* TEXT = ([^\$]|\$[^{])+
RECURSIVE MatchTEXT(_)
MatchTEXT(s) ==
  IF s = <<>> THEN 0
  ELSE IF s[1] # "$" THEN 1 + MatchTEXT(Tail(s))
  ELSE IF Len(s) >= 2 /\ s[2] # "{" THEN 2 + MatchTEXT(Drop(s, 2))
  ELSE 0

\* IGNORE = \s+
MatchIGNORE(s) == RunLen(s, Whitespace)

\* NUMBER = (\d+(\.\d*)?|\.\d+)([eE][-+]?\d+)?
\* the mantissa (\d+(\.\d*)?|\.\d+)
MatchMantissa(s) ==
  IF RunLen(s, Digits) >= 1
  THEN IF HasPoint(AfterInt(s))
       THEN Len(IntDigits(s)) + 1 + Len(FracDigits(AfterInt(s)))
       ELSE Len(IntDigits(s))
  ELSE IF HasPoint(s) /\ FracDigits(s) # <<>> THEN 1 + Len(FracDigits(s))
  ELSE 0

\* the optional exponent ([eE][-+]?\d+)? at the start of e
MatchExponent(e) ==
  IF e # <<>> /\ e[1] \in {"e", "E"} /\ RunLen(ExpDigits(e), Digits) >= 1
  THEN (Len(e) - Len(ExpDigits(e))) + RunLen(ExpDigits(e), Digits)
  ELSE 0

MatchNUMBER(s) ==
  IF MatchMantissa(s) = 0 THEN 0
  ELSE MatchMantissa(s) + MatchExponent(Drop(s, MatchMantissa(s)))

\* SYMBOL = [a-zA-Z_]\w*
MatchSYMBOL(s) ==
  IF s # <<>> /\ s[1] \in SymbolStart THEN 1 + RunLen(Tail(s), WordChars) ELSE 0

\* OP = [\+\-\*/]
MatchOP(s) == IF s # <<>> /\ s[1] \in {"+", "-", "*", "/"} THEN 1 ELSE 0

\* LPAREN = \(
MatchLPAREN(s) == IF s # <<>> /\ s[1] = "(" THEN 1 ELSE 0

\* RPAREN = \)
MatchRPAREN(s) == IF s # <<>> /\ s[1] = ")" THEN 1 ELSE 0

re_match(pattern, s) ==
  CASE pattern = "EXPR" -> MatchEXPR(s)
    [] pattern = "TEXT" -> MatchTEXT(s)
    [] pattern = "IGNORE" -> MatchIGNORE(s)
    [] pattern = "NUMBER" -> MatchNUMBER(s)
    [] pattern = "SYMBOL" -> MatchSYMBOL(s)
    [] pattern = "OP" -> MatchOP(s)
    [] pattern = "LPAREN" -> MatchLPAREN(s)
    [] pattern = "RPAREN" -> MatchRPAREN(s)

\* The patterns of the two lexers of eval_text, in declaration order.
TextPatterns == <<"EXPR", "TEXT">>
ExprPatterns == <<"IGNORE", "NUMBER", "SYMBOL", "OP", "LPAREN", "RPAREN">>

\* A lexer is [res, str, top]; top is None or the pair <<i, text>> of the
\* pattern's index (from 0, as setattr records it) and the matched text.
None == <<>>

\* QuickLexer.__init__
QuickLexer(res) == [res |-> res, str |-> <<>>, top |-> None]

\* lex.NAME: the index __init__ stored under the pattern's name
LexId(lex, name) == (CHOOSE i \in 1..Len(lex.res) : lex.res[i] = name) - 1

\* The loop of QuickLexer.next from pattern i on: the first pattern, in
\* declaration order, that matches the rest of the input.
RECURSIVE FirstMatch(_, _)
FirstMatch(lex, i) ==
  IF i > Len(lex.res) THEN [lex EXCEPT !.top = None]
  ELSE IF re_match(lex.res[i], lex.str) > 0
  THEN [lex EXCEPT !.top = <<i - 1, Take(lex.str, re_match(lex.res[i], lex.str))>>,
                   !.str = Drop(lex.str, re_match(lex.res[i], lex.str))]
  ELSE FirstMatch(lex, i + 1)

\* QuickLexer.next, the lexer it leaves (the value it returns is the old top)
QuickLexer_next(lex) == FirstMatch(lex, 1)

\* QuickLexer.lex
QuickLexer_lex(lex, s) == QuickLexer_next([lex EXCEPT !.str = s, !.top = None])

\* QuickLexer.peek
QuickLexer_peek(lex) == lex.top

(***************************************************************************)
(* Expression evaluation                                                   *)
(***************************************************************************)

\* A Python value as eval_expr returns it, with str(value) in repr.
IntZero == [type |-> "int", repr |-> <<"0">>]
FloatValue(f) == [type |-> "float", repr |-> float_str(f)]
StringValue(s) == [type |-> "str", repr |-> s]

Returned(v) == [raised |-> FALSE, key |-> <<>>, value |-> v]
\* KeyError(key)
KeyError(k) == [raised |-> TRUE, key |-> k, value |-> IntZero]

\* the inner try of eval_expr: float(value), else str(value); float of an
\* element is a TypeError
ValueOf(value, f) ==
  IF ~value.isElement /\ f.ok THEN Returned(FloatValue(f))
  ELSE Returned(StringValue(value.str))

\* the outer try of eval_expr: float(token), else symbols[token]
TokenValue(token, f, symbols) ==
  IF f.ok THEN Returned(FloatValue(f))
  ELSE IF Table_raises(symbols, token) THEN KeyError(token)
  ELSE ValueOf(Table_getitem(symbols, token),
               float(Table_getitem(symbols, token).str))

\* eval_expr as it would be if it went through the whole token stream and
\* kept the value of the last token.
RECURSIVE eval_expr_whole(_, _)
eval_expr_whole(lex, symbols) ==
  IF QuickLexer_peek(lex) = None THEN Returned(IntZero)
  ELSE IF QuickLexer_peek(QuickLexer_next(lex)) # None
  THEN eval_expr_whole(QuickLexer_next(lex), symbols)
  ELSE IF QuickLexer_peek(lex)[1] \in {LexId(lex, "NUMBER"), LexId(lex, "SYMBOL")}
  THEN TokenValue(QuickLexer_peek(lex)[2], float(QuickLexer_peek(lex)[2]), symbols)
  ELSE Returned(IntZero)

\* eval_expr(lex, symbols)
eval_expr(lex, symbols) ==
  IF QuickLexer_peek(lex) = None THEN Returned(IntZero)
  ELSE IF QuickLexer_peek(lex)[1] \in {LexId(lex, "NUMBER"), LexId(lex, "SYMBOL")}
  THEN TokenValue(QuickLexer_peek(lex)[2], float(QuickLexer_peek(lex)[2]), symbols)
  ELSE Returned(IntZero)

\* handle_expr(s) of eval_text
handle_expr(s, symbols) ==
  eval_expr(QuickLexer_lex(QuickLexer(ExprPatterns), s), symbols)

\* What one token of the text lexer adds to results: str(handle_expr(...))
\* of an EXPR token without its "${" and "}", the text of a TEXT token.
ExprResult(r) == [raised |-> r.raised, key |-> r.key, text |-> r.value.repr]

TokenResult(lex, symbols) ==
  IF QuickLexer_peek(lex)[1] = LexId(lex, "EXPR")
  THEN ExprResult(handle_expr(SubSeq(QuickLexer_peek(lex)[2], 3,
                                     Len(QuickLexer_peek(lex)[2]) - 1), symbols))
  ELSE [raised |-> FALSE, key |-> <<>>, text |-> QuickLexer_peek(lex)[2]]

\* The while loop of eval_text; results is the joined list.
RECURSIVE eval_text_loop(_, _, _)
RECURSIVE eval_text_append(_, _, _, _)
eval_text_append(lex, symbols, results, r) ==
  IF r.raised THEN [raised |-> TRUE, key |-> r.key, text |-> <<>>]
  ELSE eval_text_loop(QuickLexer_next(lex), symbols, results \o r.text)

eval_text_loop(lex, symbols, results) ==
  IF QuickLexer_peek(lex) = None
  THEN [raised |-> FALSE, key |-> <<>>, text |-> results]
  ELSE eval_text_append(lex, symbols, results, TokenResult(lex, symbols))

\* eval_text(text, symbols): [raised, key, text]
eval_text(text, symbols) ==
  eval_text_loop(QuickLexer_lex(QuickLexer(TextPatterns), text), symbols, <<>>)

(***************************************************************************)
(* The document tree (xml.dom.minidom)                                     *)
(***************************************************************************)

\* A node.  attributes is the ordered list of <<name, value>> pairs of an
\* element (names are unique), childNodes the ordered list of its children,
\* data the content of a text or comment node.
Element(tag, attrs, kids) ==
  [nodeType |-> "ELEMENT_NODE", tagName |-> tag, attributes |-> attrs,
   childNodes |-> kids, data |-> <<>>]
TextNode(data) ==
  [nodeType |-> "TEXT_NODE", tagName |-> "#text", attributes |-> <<>>,
   childNodes |-> <<>>, data |-> data]
Comment(data) ==
  [nodeType |-> "COMMENT_NODE", tagName |-> "#comment", attributes |-> <<>>,
   childNodes |-> <<>>, data |-> data]
Document(kids) ==
  [nodeType |-> "DOCUMENT_NODE", tagName |-> "#document", attributes |-> <<>>,
   childNodes |-> kids, data |-> <<>>]

\* A node of a document is named by its path: the child indices that lead
\* to it from the Document node, which is <<>>.  NoNode is Python's None.
NoNode == <<0>>
ParentPath(path) == Take(path, Len(path) - 1)
ChildIndex(path) == path[Len(path)]
ChildPath(path, i) == IF i = 0 THEN NoNode ELSE path \o <<i>>

RECURSIVE NodeAt(_, _)
NodeAt(node, path) ==
  IF path = <<>> THEN node ELSE NodeAt(node.childNodes[path[1]], Tail(path))

\* The tree with the node at path replaced by new.
RECURSIVE ReplaceAt(_, _, _)
ReplaceAt(node, path, new) ==
  IF path = <<>> THEN new
  ELSE [node EXCEPT !.childNodes[path[1]] = ReplaceAt(@, Tail(path), new)]

\* The least index from `from` on of a child whose type is in types; 0 when
\* there is none.
RECURSIVE FirstIndex(_, _, _)
FirstIndex(kids, from, types) ==
  IF from > Len(kids) THEN 0
  ELSE IF kids[from].nodeType \in types THEN from
  ELSE FirstIndex(kids, from + 1, types)

AnyNode == {"ELEMENT_NODE", "TEXT_NODE", "COMMENT_NODE"}

\* doc.documentElement
documentElement(doc) == <<FirstIndex(doc.childNodes, 1, {"ELEMENT_NODE"})>>

\* first_child_element(elt)
first_child_element(doc, elt) ==
  ChildPath(elt, FirstIndex(NodeAt(doc, elt).childNodes, 1, {"ELEMENT_NODE"}))

\* next_sibling_element(elt); the Document node has no sibling
next_sibling_element(doc, elt) ==
  IF elt = <<>> THEN NoNode
  ELSE ChildPath(ParentPath(elt),
                 FirstIndex(NodeAt(doc, ParentPath(elt)).childNodes,
                            ChildIndex(elt) + 1, {"ELEMENT_NODE"}))

\* the while loop of next_element: the next sibling element of elt or of
\* its nearest ancestor that has one
RECURSIVE next_element_up(_, _)
next_element_up(doc, elt) ==
  IF next_sibling_element(doc, elt) # NoNode THEN next_sibling_element(doc, elt)
  ELSE IF elt = <<>> THEN NoNode
  ELSE next_element_up(doc, ParentPath(elt))

\* next_element(elt)
next_element(doc, elt) ==
  IF first_child_element(doc, elt) # NoNode THEN first_child_element(doc, elt)
  ELSE next_element_up(doc, elt)

\* node.nextSibling
nextSibling(doc, node) ==
  IF node = <<>> THEN NoNode
  ELSE ChildPath(ParentPath(node),
                 FirstIndex(NodeAt(doc, ParentPath(node)).childNodes,
                            ChildIndex(node) + 1, AnyNode))

\* the while loop of next_node
RECURSIVE next_node_up(_, _)
next_node_up(doc, node) ==
  IF nextSibling(doc, node) # NoNode THEN nextSibling(doc, node)
  ELSE IF node = <<>> THEN NoNode
  ELSE next_node_up(doc, ParentPath(node))

\* next_node(node)
next_node(doc, node) ==
  IF NodeAt(doc, node).childNodes # <<>> THEN node \o <<1>>
  ELSE next_node_up(doc, node)

\* child_elements(elt)
child_elements(node) ==
  SelectSeq(node.childNodes, LAMBDA c : c.nodeType = "ELEMENT_NODE")

\* The index of the attribute called name, 0 when the element has none.
RECURSIVE AttrIndex(_, _, _)
AttrIndex(attrs, name, i) ==
  IF i > Len(attrs) THEN 0
  ELSE IF attrs[i][1] = name THEN i
  ELSE AttrIndex(attrs, name, i + 1)

\* elt.hasAttribute(name)
hasAttribute(node, name) == AttrIndex(node.attributes, name, 1) # 0

\* elt.getAttribute(name): "" when the element has no such attribute
getAttribute(node, name) ==
  IF hasAttribute(node, name)
  THEN node.attributes[AttrIndex(node.attributes, name, 1)][2]
  ELSE <<>>

\* elt.setAttribute(name, value): the element it leaves
setAttribute(node, name, value) ==
  IF hasAttribute(node, name)
  THEN [node EXCEPT !.attributes[AttrIndex(node.attributes, name, 1)] = <<name, value>>]
  ELSE [node EXCEPT !.attributes = Append(@, <<name, value>>)]

(***************************************************************************)
(* Tree substitution (eval_all)                                            *)
(***************************************************************************)

\* for at in node.attributes.items():
\*     node.setAttribute(at[0], eval_text(at[1], symbols))
\* from the i-th attribute on: [raised, key, node]
RECURSIVE eval_attributes(_, _, _)
RECURSIVE eval_attribute(_, _, _, _)
eval_attribute(node, i, symbols, r) ==
  IF r.raised THEN [raised |-> TRUE, key |-> r.key, node |-> node]
  ELSE eval_attributes(setAttribute(node, node.attributes[i][1], r.text),
                       i + 1, symbols)

eval_attributes(node, i, symbols) ==
  IF i > Len(node.attributes) THEN [raised |-> FALSE, key |-> <<>>, node |-> node]
  ELSE eval_attribute(node, i, symbols, eval_text(node.attributes[i][2], symbols))

\* node.data = eval_text(node.data, symbols)
TextResult(node, r) ==
  IF r.raised THEN [raised |-> TRUE, key |-> r.key, node |-> node]
  ELSE [raised |-> FALSE, key |-> <<>>, node |-> [node EXCEPT !.data = r.text]]

\* The body of the while loop of eval_all for one node.
eval_node(node, symbols) ==
  IF node.nodeType = "ELEMENT_NODE" THEN eval_attributes(node, 1, symbols)
  ELSE IF node.nodeType = "TEXT_NODE"
  THEN TextResult(node, eval_text(node.data, symbols))
  ELSE [raised |-> FALSE, key |-> <<>>, node |-> node]

\* The while loop of eval_all from node on: [raised, key, doc]
RECURSIVE eval_all_loop(_, _, _)
eval_all_next(doc, node, symbols) ==
  eval_all_loop(doc, next_node(doc, node), symbols)

eval_all_visited(doc, node, symbols, r) ==
  IF r.raised
  THEN [raised |-> TRUE, key |-> r.key, doc |-> ReplaceAt(doc, node, r.node)]
  ELSE eval_all_next(ReplaceAt(doc, node, r.node), node, symbols)

eval_all_loop(doc, node, symbols) ==
  IF node = NoNode THEN [raised |-> FALSE, key |-> <<>>, doc |-> doc]
  ELSE eval_all_visited(doc, node, symbols, eval_node(NodeAt(doc, node), symbols))

\* eval_all(root, macros, symbols) on the element at path root (macros is
\* not read): the attributes of root, then every node after it.
eval_all(doc, root, symbols) == eval_all_loop(doc, root, symbols)

(***************************************************************************)
(* Xacro core: includes, macros, properties                                *)
(***************************************************************************)

\* d[key] = value on a dict kept as the ordered list of its <<key, value>>
\* items: a key already there keeps its place.
dict_setitem(items, key, value) ==
  IF AttrIndex(items, key, 1) # 0
  THEN [items EXCEPT ![AttrIndex(items, key, 1)] = <<key, value>>]
  ELSE Append(items, <<key, value>>)

\* A file of the directory of the source: isfile is os.path.isfile,
\* wellFormed whether xml.dom.minidom.parse accepts it, doc what it returns.
NoFile == [isfile |-> FALSE, wellFormed |-> FALSE, doc |-> Document(<<>>)]
Malformed == [isfile |-> TRUE, wellFormed |-> FALSE, doc |-> Document(<<>>)]
XmlFile(d) == [isfile |-> TRUE, wellFormed |-> TRUE, doc |-> d]

\* open(filename) followed by parse(f) succeeds
Readable(fs, filename) ==
  filename \in DOMAIN fs /\ fs[filename].isfile /\ fs[filename].wellFormed

IncludeTags == {"include", "xacro:include"}
MacroTags == {"macro", "xacro:macro"}
PropertyTags == {"property", "xacro:property"}

AttrName == <<"n", "a", "m", "e">>
AttrValue == <<"v", "a", "l", "u", "e">>
AttrFilename == <<"f", "i", "l", "e", "n", "a", "m", "e">>
XmlnsPrefix == <<"x", "m", "l", "n", "s", ":">>
XacroPrefix == <<"x", "a", "c", "r", "o", ":">>

\* elt.parentNode.removeChild(elt)
removeChild(doc, elt) ==
  ReplaceAt(doc, ParentPath(elt),
            [NodeAt(doc, ParentPath(elt)) EXCEPT
               !.childNodes = Take(@, ChildIndex(elt) - 1) \o Drop(@, ChildIndex(elt))])

\* for c in child_elements(included.documentElement):
\*     elt.parentNode.insertBefore(c.cloneNode(True), elt)
\* the copies go before elt, in order; elt moves right by their number
insert_before(doc, elt, nodes) ==
  ReplaceAt(doc, ParentPath(elt),
            [NodeAt(doc, ParentPath(elt)) EXCEPT
               !.childNodes = Take(@, ChildIndex(elt) - 1) \o nodes
                              \o Drop(@, ChildIndex(elt) - 1)])

\* A variant that puts the copies after the last child of the parent
\* (appendChild) before it removes elt.
splice_appended(doc, elt, included) ==
  removeChild(
    ReplaceAt(doc, ParentPath(elt),
              [NodeAt(doc, ParentPath(elt)) EXCEPT
                 !.childNodes =
                   @ \o child_elements(NodeAt(included, documentElement(included)))]),
    elt)

\* The include element elt replaced by the element children of the root of
\* the included document.
splice_included(doc, elt, included) ==
  removeChild(
    insert_before(doc, elt, child_elements(NodeAt(included, documentElement(included)))),
    ParentPath(elt)
      \o <<ChildIndex(elt)
           + Len(child_elements(NodeAt(included, documentElement(included))))>>)

\* A collection that keeps the value a name has already: the first file
\* that declares a namespace wins.
RECURSIVE collect_first_namespaces(_, _, _)
collect_first_namespaces(namespaces, attrs, i) ==
  IF i > Len(attrs) THEN namespaces
  ELSE IF StartsWith(attrs[i][1], XmlnsPrefix) /\ AttrIndex(namespaces, attrs[i][1], 1) = 0
  THEN collect_first_namespaces(Append(namespaces, attrs[i]), attrs, i + 1)
  ELSE collect_first_namespaces(namespaces, attrs, i + 1)

\* for name, value in included.documentElement.attributes.items():
\*     if name.startswith("xmlns:"): namespaces[name] = value
RECURSIVE collect_namespaces(_, _, _)
collect_namespaces(namespaces, attrs, i) ==
  IF i > Len(attrs) THEN namespaces
  ELSE IF StartsWith(attrs[i][1], XmlnsPrefix)
  THEN collect_namespaces(dict_setitem(namespaces, attrs[i][1], attrs[i][2]), attrs, i + 1)
  ELSE collect_namespaces(namespaces, attrs, i + 1)

\* for k, v in namespaces.items(): doc.documentElement.setAttribute(k, v)
RECURSIVE set_attributes(_, _, _)
set_attributes(node, items, i) ==
  IF i > Len(items) THEN node
  ELSE set_attributes(setAttribute(node, items[i][1], items[i][2]), items, i + 1)

apply_namespaces(doc, namespaces) ==
  ReplaceAt(doc, documentElement(doc),
            set_attributes(NodeAt(doc, documentElement(doc)), namespaces, 1))

\* A variant that resumes the scan past the nodes spliced in, without
\* reading them.
resume_scan_past(doc, previous, elt, count) ==
  IF count = 0 THEN next_element(doc, previous)
  ELSE next_element_up(doc, ParentPath(elt) \o <<ChildIndex(elt) + count - 1>>)

\* elt = next_element(previous) once the include element is gone: the scan
\* resumes from the last element kept, so it reads the spliced nodes next.
\* (elt and count, the include's path and the number of nodes spliced, are
\* not read.)
resume_scan(doc, previous, elt, count) == next_element(doc, previous)

\* grab_macros(doc): the loop from previous on; [doc, macros]
RECURSIVE grab_macros_loop(_, _, _)
grab_macros_visit(doc, previous, macros, elt) ==
  IF elt = NoNode THEN [doc |-> doc, macros |-> macros]
  ELSE IF NodeAt(doc, elt).tagName \in MacroTags
  THEN grab_macros_loop(
         removeChild(doc, elt), previous,
         dict_setitem(
           dict_setitem(macros, getAttribute(NodeAt(doc, elt), AttrName), NodeAt(doc, elt)),
           XacroPrefix \o getAttribute(NodeAt(doc, elt), AttrName), NodeAt(doc, elt)))
  ELSE grab_macros_loop(doc, elt, macros)

grab_macros_loop(doc, previous, macros) ==
  grab_macros_visit(doc, previous, macros, next_element(doc, previous))

grab_macros(doc) == grab_macros_loop(doc, documentElement(doc), <<>>)

\* value = elt.getAttribute("value") if elt.hasAttribute("value") else elt
property_value(node) ==
  IF hasAttribute(node, AttrValue) THEN StrValue(getAttribute(node, AttrValue))
  ELSE ElementValue

\* grab_properties(doc): the loop from previous on; [doc, table]
RECURSIVE grab_properties_loop(_, _, _)
grab_properties_visit(doc, previous, table, elt) ==
  IF elt = NoNode THEN [doc |-> doc, table |-> table]
  ELSE IF NodeAt(doc, elt).tagName \in PropertyTags
  THEN grab_properties_loop(
         removeChild(doc, elt), previous,
         Table_setitem(table, getAttribute(NodeAt(doc, elt), AttrName),
                       property_value(NodeAt(doc, elt))))
  ELSE grab_properties_loop(doc, elt, table)

grab_properties_loop(doc, previous, table) ==
  grab_properties_visit(doc, previous, table, next_element(doc, previous))

grab_properties(doc) == grab_properties_loop(doc, documentElement(doc), NewTable)

(***************************************************************************)
(* Serializer (fixed_writexml, toprettyxml)                                *)
(***************************************************************************)

\* The text written is kept line by line.  A line is one of
\*   xmldecl  <?xml version="1.0" ?>
\*   empty    <tag attrs/>
\*   inline   <tag attrs>data</tag>
\*   open     <tag attrs>
\*   close    </tag>
\*   comment  <!--data-->
\*   text     data                  (a text node written by itself)
\*   newline  the "\n" written after the document
\* at the depth of its indentation (addindent is two spaces a level).
Line(kind, depth, tag, attrs, data) ==
  [kind |-> kind, depth |-> depth, tag |-> tag, attrs |-> attrs, data |-> data]

\* sorted(attrs.keys()) with each name's value: insertion sort on the names
RECURSIVE insert_sorted(_, _)
insert_sorted(sorted, item) ==
  IF sorted = <<>> THEN <<item>>
  ELSE IF StrLess(item[1], sorted[1][1]) THEN <<item>> \o sorted
  ELSE <<sorted[1]>> \o insert_sorted(Tail(sorted), item)

RECURSIVE sorted_attributes(_)
sorted_attributes(attrs) ==
  IF attrs = <<>> THEN <<>>
  ELSE insert_sorted(sorted_attributes(Take(attrs, Len(attrs) - 1)), attrs[Len(attrs)])

\* xml.dom.minidom._write_data as _write_data_compat reaches it.  The
\* interpreter's minidom is one of two: before Python 3.12 _write_data takes
\* (writer, data) and escapes "&", "<", the double quote and ">"; from 3.12
\* on it takes (writer, text, attr) and escapes the double quote only when
\* attr is true.  quoted says whether the quote is escaped.
Escaped(c, quoted) ==
  IF c = "&" THEN <<"&", "a", "m", "p", ";">>
  ELSE IF c = "<" THEN <<"&", "l", "t", ";">>
  ELSE IF c = ">" THEN <<"&", "g", "t", ";">>
  ELSE IF c = "\"" /\ quoted THEN <<"&", "q", "u", "o", "t", ";">>
  ELSE <<c>>

RECURSIVE write_data(_, _)
write_data(data, quoted) ==
  IF data = <<>> THEN <<>>
  ELSE Escaped(data[1], quoted) \o write_data(Tail(data), quoted)

\* _write_data_compat(writer, data, attr): the three-argument call goes
\* through on Python 3.12+, where a false attr leaves the quote alone; the
\* TypeError of the older minidom leads to the two-argument call.
write_data_compat(data, attr, py312) == write_data(data, IF py312 THEN attr ELSE TRUE)

\* for a_name in a_names: the value of each attribute as it is written,
\* _write_data_compat(writer, attrs[a_name].value, None)
written_attributes(attrs, py312) ==
  [i \in 1..Len(attrs) |-> <<attrs[i][1], write_data_compat(attrs[i][2], FALSE, py312)>>]

\* node.writexml(writer, indent, addindent, newl): fixed_writexml for an
\* element, minidom's own for a comment and a text node (Text.writexml
\* passes its data through _write_data, with a false attr on Python 3.12+)
RECURSIVE writexml(_, _, _)
RECURSIVE write_children(_, _, _, _)
write_children(kids, i, depth, py312) ==
  IF i > Len(kids) THEN <<>>
  ELSE (IF kids[i].nodeType # "TEXT_NODE" THEN writexml(kids[i], depth, py312) ELSE <<>>)
       \o write_children(kids, i + 1, depth, py312)

writexml(node, depth, py312) ==
  IF node.nodeType = "COMMENT_NODE"
  THEN <<Line("comment", depth, "", <<>>, node.data)>>
  ELSE IF node.nodeType = "TEXT_NODE"
  THEN <<Line("text", depth, "", <<>>, write_data(node.data, ~py312))>>
  ELSE IF node.childNodes = <<>>
  THEN <<Line("empty", depth, node.tagName,
              written_attributes(sorted_attributes(node.attributes), py312), <<>>)>>
  ELSE IF Len(node.childNodes) = 1 /\ node.childNodes[1].nodeType = "TEXT_NODE"
  THEN <<Line("inline", depth, node.tagName,
              written_attributes(sorted_attributes(node.attributes), py312),
              write_data(node.childNodes[1].data, ~py312))>>
  ELSE <<Line("open", depth, node.tagName,
              written_attributes(sorted_attributes(node.attributes), py312), <<>>)>>
       \o write_children(node.childNodes, 1, depth + 1, py312)
       \o <<Line("close", depth, node.tagName, <<>>, <<>>)>>

\* Document.writexml: the declaration, then every child at depth 0
RECURSIVE write_document_children(_, _, _)
write_document_children(kids, i, py312) ==
  IF i > Len(kids) THEN <<>>
  ELSE writexml(kids[i], 0, py312) \o write_document_children(kids, i + 1, py312)

\* doc.toprettyxml(indent="  ")
toprettyxml(doc, py312) ==
  <<Line("xmldecl", 0, "", <<>>, <<>>)>> \o write_document_children(doc.childNodes, 1, py312)

\* Comment.writexml raises ValueError on a comment that holds "--"
HasDashes(data) == \E i \in 1..(Len(data) - 1) : data[i] = "-" /\ data[i + 1] = "-"

toprettyxml_raises(doc) ==
  \E i \in 1..Len(toprettyxml(doc, FALSE)) :
    toprettyxml(doc, FALSE)[i].kind = "comment" /\ HasDashes(toprettyxml(doc, FALSE)[i].data)

\* The banner of convert_xacro_to_urdf
BannerWidth == 83
BannerRule == [i \in 1..BannerWidth |-> "="]
banner(basename) ==
  << Comment(BannerRule),
     Comment(<<" Autogenerated from ">> \o basename \o <<" ">>),
     Comment(<<" EDITING THIS FILE BY HAND IS NOT RECOMMENDED ">>),
     Comment(BannerRule) >>

(***************************************************************************)
(* State                                                                   *)
(***************************************************************************)

VARIABLES
  text,         \* eval_text: the string passed in
  symbols,      \* the symbol table: eval_text's and eval_all's argument
  tpc,          \* eval_text: "call" before the call, then "returned" or "raised"
  tout,         \* eval_text: the string returned
  terr,         \* eval_text: the key of the KeyError raised
  doc,          \* the document tree
  epc,          \* eval_all: "call", "once" after a first pass, "twice" after a
                \* second one, "raised" / "raised again" when a pass raised
  doc1,         \* eval_all: the tree as the first pass left it
  pc,           \* convert_xacro_to_urdf: the statement to run next, or
                \* "returned" / "raised"
  err,          \* the exception raised: [type, stage, arg]
  xacro_file,   \* the base name of the source
  fs,           \* the files of the directory of the source, by name
  evaluated,    \* eval_text(f, {}) of the filename attributes f of these files
  dest,         \* the file at output_urdf_path
  dest0,        \* that file before the call
  py312,        \* whether the interpreter's minidom is that of Python 3.12+,
                \* whose _write_data takes the attr argument
  dirExists,    \* whether the directory of output_urdf_path exists
  dirExists0,   \* whether it existed before the call
  previous,     \* process_includes: the last element kept
  elt,          \* process_includes: the element looked at
  namespaces,   \* process_includes: the xmlns: attributes collected
  all_includes, \* the module's list of the files included
  macros,       \* the macros grab_macros returned
  argv,         \* main: sys.argv[1:]
  posixly_correct, \* main: whether the environment sets POSIXLY_CORRECT
  mpc,          \* main: the statement to run next, "exited" after sys.exit,
                \* "convert" at the call of convert_xacro_to_urdf
  opts,         \* main: the options getopt returned, each <<option, argument>>
  args,         \* main: the positional arguments getopt returned
  output,       \* main: output, None or a path
  status,       \* main: the exit status passed to sys.exit
  stdout,       \* main: the lines printed
  call,         \* main: the arguments of the call of convert_xacro_to_urdf
  other_includes, \* a second call of convert_xacro_to_urdf, on another
                \* document: the files its process_includes includes, in order
  opc,          \* the second call: the statement to run next
  oi,           \* the second call: how many of its files it has included
  timeline,     \* run: the items of the design's timeline, in order
  markerPosition, \* run: how many items are before the timeline marker
  marker_build, \* run: what this Fusion build accepts as markerPosition
  need_rollback, \* run: the global _need_rollback
  start_timeline_count, \* run: the global _start_timeline_count
  design,       \* run: whether design is not None
  cleanup_components, \* run: the answer to the cleanup question
  rpc,          \* run: the statement to run next
  outcome,      \* run: how the try block was left
  deleted,      \* run: the indexes the rollback deleted, in order
  tree,         \* find: the directories that exist
  base_dir,     \* find: the directory of the including file
  parts,        \* find: the parts the filename is written from
  path_value,   \* find: the filename
  fpc,          \* find: "call", then "returned"
  expanded,     \* find: what _expand_find_substitutions returned
  allOccs,      \* cleanup: the occurrences of the root component at the start
  occurrences,  \* cleanup: the occurrences of the root component
  has_design,   \* cleanup: whether there is an active design
  answer,       \* cleanup: the answer to the confirmation
  cpc,          \* cleanup: the statement to run next
  copied_components, \* cleanup: the indexes in copied_components
  original_components, \* cleanup: the indexes in original_components
  said          \* cleanup: the last message shown

textVars == <<text, tpc, tout, terr>>
substVars == <<epc, doc1>>
scanVars == <<previous, elt, namespaces, all_includes>>
outVars == <<dest, dirExists>>
inVars == <<xacro_file, fs, evaluated, dest0, py312, dirExists0>>
convVars == <<pc, err, inVars, outVars, scanVars, macros>>

cliVars == <<argv, posixly_correct, mpc, opts, args, output, status, stdout, call>>
otherVars == <<other_includes, opc, oi>>
runVars == <<timeline, markerPosition, marker_build, need_rollback,
             start_timeline_count, design, cleanup_components, rpc, outcome,
             deleted>>
findVars == <<tree, base_dir, parts, path_value, fpc, expanded>>
cleanupVars == <<allOccs, occurrences, has_design, answer, cpc, copied_components,
                 original_components, said>>
restVars == <<cliVars, otherVars, runVars, findVars, cleanupVars>>

vars == <<textVars, substVars, convVars, symbols, doc, restVars>>

NoError == [type |-> "", stage |-> "", arg |-> <<>>]
Error(type, stage, arg) == [type |-> type, stage |-> stage, arg |-> arg]

\* A file that does not exist, and a file with these lines
NoOutput == [exists |-> FALSE, content |-> <<>>]
Output(content) == [exists |-> TRUE, content |-> content]

\* The parts of the state a specification does not use stay as they are here.
TextIdle == text = <<>> /\ tpc = "idle" /\ tout = <<>> /\ terr = <<>>
SubstIdle == epc = "idle" /\ doc1 = Document(<<>>)
NoStatus == -1
CliIdle ==
  /\ argv = <<>> /\ posixly_correct = FALSE /\ mpc = "idle"
  /\ opts = <<>> /\ args = <<>> /\ output = None
  /\ status = NoStatus /\ stdout = <<>> /\ call = None
OtherIdle == other_includes = <<>> /\ opc = "idle" /\ oi = 0
\* _start_timeline_count = None
NoCount == -1
RunIdle ==
  /\ timeline = <<>> /\ markerPosition = 0 /\ marker_build = "index"
  /\ need_rollback = FALSE /\ start_timeline_count = NoCount
  /\ design = FALSE /\ cleanup_components = FALSE /\ rpc = "idle"
  /\ outcome = "running" /\ deleted = <<>>
FindIdle ==
  /\ tree = {} /\ base_dir = <<>> /\ parts = <<>> /\ path_value = <<>>
  /\ fpc = "idle" /\ expanded = <<>>
CleanupIdle ==
  /\ allOccs = <<>> /\ occurrences = <<>> /\ has_design = FALSE /\ answer = "No"
  /\ cpc = "idle" /\ copied_components = {} /\ original_components = {}
  /\ said = "nothing"
RestIdle == CliIdle /\ OtherIdle /\ RunIdle /\ FindIdle /\ CleanupIdle

ConvIdle ==
  /\ pc = "idle" /\ err = NoError
  /\ xacro_file = <<>> /\ fs = <<>> /\ evaluated = <<>> /\ dest0 = NoOutput
  /\ py312 = FALSE
  /\ dest = NoOutput /\ dirExists = FALSE /\ dirExists0 = FALSE
  /\ previous = NoNode /\ elt = NoNode /\ namespaces = <<>>
  /\ all_includes = <<>> /\ macros = <<>>

(***************************************************************************)
(* Inputs of eval_text                                                     *)
(***************************************************************************)

\* The text "${e}"
Span(e) == <<"$", "{">> \o e \o <<"}">>

\* The texts are the concatenations of at most MaxPieces of these pieces.
MaxPieces == 2

Pieces ==
  { <<"a">>, <<"b">>, <<"$">>, <<" ">>, <<"$", "{", "x">>,
    Span(<<"x">>), Span(<<" ", "x", " ">>), Span(<<"x", " ">>),
    Span(<<"u">>), Span(<<"n", "a", "n">>), Span(<<"I", "n", "f">>),
    Span(<<"1">>), Span(<<"1", " ", "+", " ", "2">>), Span(<<"x", " ", "u">>),
    Span(<<>>), Span(<<"+", "1">>), Span(<<"(", "x", ")">>),
    Span(<<"y">>), Span(<<"w">>), Span(<<"\t", "1">>) }

RECURSIVE TextsUpTo(_)
TextsUpTo(n) ==
  IF n = 0 THEN {<<>>}
  ELSE TextsUpTo(n - 1) \cup {t \o p : t \in TextsUpTo(n - 1), p \in Pieces}

Texts == TextsUpTo(MaxPieces)

\* Symbol tables: none declared; literals; literals that hold "$", a name
\* float() reads as a number, an element value; a scope chained to a parent.
NameX == <<"x">>
NameY == <<"y">>
NameW == <<"w">>
NameNan == <<"n", "a", "n">>

PlainSymbols ==
  Table_setitem(Table_setitem(NewTable, NameX, StrValue(<<"5">>)),
                NameW, StrValue(<<"a", "b">>))

OddSymbols ==
  Table_setitem(
    Table_setitem(
      Table_setitem(NewTable, NameX, StrValue(<<"a", "$">>)),
      NameY, StrValue(Span(NameX))),
    NameNan, StrValue(<<"7">>))

ElementSymbols == Table_setitem(PlainSymbols, NameY, ElementValue)

ChainedSymbols ==
  Table_setitem(ChildTable(PlainSymbols), NameX, StrValue(<<"0", "1", ".", "5", "0">>))

SymbolTables ==
  {NewTable, PlainSymbols, OddSymbols, ElementSymbols, ChainedSymbols}

(***************************************************************************)
(* Specification of eval_text: one call on every text and table            *)
(***************************************************************************)

InitText ==
  /\ text \in Texts
  /\ symbols \in SymbolTables
  /\ tpc = "call"
  /\ tout = <<>>
  /\ terr = <<>>
  /\ doc = Document(<<>>)
  /\ SubstIdle
  /\ ConvIdle
  /\ RestIdle

\* eval_text returns
EvalTextReturns ==
  /\ tpc = "call"
  /\ ~eval_text(text, symbols).raised
  /\ tpc' = "returned"
  /\ tout' = eval_text(text, symbols).text
  /\ UNCHANGED <<text, symbols, terr, doc, substVars, convVars, restVars>>

\* eval_text lets the KeyError of symbols[token] through
EvalTextRaises ==
  /\ tpc = "call"
  /\ eval_text(text, symbols).raised
  /\ tpc' = "raised"
  /\ terr' = eval_text(text, symbols).key
  /\ UNCHANGED <<text, symbols, tout, doc, substVars, convVars, restVars>>

NextText == EvalTextReturns \/ EvalTextRaises

SpecText == InitText /\ [][NextText]_vars

(***************************************************************************)
(* Specification of eval_all: two passes over every tree and table         *)
(***************************************************************************)

\* Attribute names
AttrXyz == <<"x", "y", "z">>

\* The strings put in the attribute values and text nodes of the trees.
SubstTexts ==
  { <<"a">>, <<"a", "$">>, Span(NameX), Span(NameY), Span(<<"u">>),
    <<"$">> \o Span(NameX), <<"a">> \o Span(NameW) \o <<"b">> }

\* <robot name=t1><link xyz=t2>t3</link><!--${x}--><joint/>t4</robot>
SubstDoc(t1, t2, t3, t4) ==
  Document(<<
    Element("robot", << <<AttrName, t1>> >>, <<
      Element("link", << <<AttrXyz, t2>> >>, << TextNode(t3) >>),
      Comment(Span(NameX)),
      Element("joint", <<>>, <<>>),
      TextNode(t4) >>) >>)

SubstDocs ==
  {SubstDoc(t1, t2, t3, <<"a">>) : t1 \in SubstTexts, t2 \in SubstTexts, t3 \in SubstTexts}
  \cup {SubstDoc(<<"a">>, <<"a">>, <<"a">>, t4) : t4 \in SubstTexts}

InitSubst ==
  /\ doc \in SubstDocs
  /\ symbols \in SymbolTables
  /\ epc = "call"
  /\ doc1 = Document(<<>>)
  /\ TextIdle
  /\ ConvIdle
  /\ RestIdle

\* eval_all(doc.documentElement, macros, symbols) returns
EvalAllReturns ==
  /\ epc \in {"call", "once"}
  /\ ~eval_all(doc, documentElement(doc), symbols).raised
  /\ doc' = eval_all(doc, documentElement(doc), symbols).doc
  /\ doc1' = doc
  /\ epc' = IF epc = "call" THEN "once" ELSE "twice"
  /\ UNCHANGED <<symbols, textVars, convVars, restVars>>

\* eval_all lets the KeyError of an eval_text through
EvalAllRaises ==
  /\ epc \in {"call", "once"}
  /\ eval_all(doc, documentElement(doc), symbols).raised
  /\ doc' = eval_all(doc, documentElement(doc), symbols).doc
  /\ doc1' = doc
  /\ epc' = IF epc = "call" THEN "raised" ELSE "raised again"
  /\ UNCHANGED <<symbols, textVars, convVars, restVars>>

NextSubst == EvalAllReturns \/ EvalAllRaises

SpecSubst == InitSubst /\ [][NextSubst]_vars

(***************************************************************************)
(* Specification of convert_xacro_to_urdf                                  *)
(***************************************************************************)

\* File names
NameR == <<"r">>
NameDashed == <<"r", "-", "-", "r">>
NameI == <<"i">>
NameJ == <<"j">>
NameM == <<"m">>

AttrXmlnsA == XmlnsPrefix \o <<"a">>
AttrXmlnsB == XmlnsPrefix \o <<"b">>

Include(tag, filename) == Element(tag, << <<AttrFilename, filename>> >>, <<>>)
Property(tag, name, value) ==
  Element(tag, << <<AttrName, name>>, <<AttrValue, value>> >>, <<>>)

\* <robot name="a"><link xyz="a$" name="b">t</link>m<joint/><!--c--></robot>
MixedDoc ==
  Document(<<
    Element("robot", << <<AttrName, <<"a">> >> >>, <<
      Element("link", << <<AttrXyz, <<"a", "$">> >>, <<AttrName, <<"b">> >> >>,
              << TextNode(<<"t">>) >>),
      TextNode(<<"m">>),
      Element("joint", <<>>, <<>>),
      Comment(<<"c">>) >>) >>)

\* <robot name="a"><link xyz="b a" name="b">a b</link><joint/></robot>
InlineDoc ==
  Document(<<
    Element("robot", << <<AttrName, <<"a">> >> >>, <<
      Element("link", << <<AttrXyz, <<"b", " ", "a">> >>, <<AttrName, <<"b">> >> >>,
              << TextNode(<<"a", " ", "b">>) >>),
      Element("joint", <<>>, <<>>) >>) >>)

\* <robot xmlns:a="1" name="r"><link/>t<INCLUDE filename=f/><!--c--><joint/></robot>
IncludeDoc(tag, f) ==
  Document(<<
    Element("robot", << <<AttrXmlnsA, <<"1">> >>, <<AttrName, <<"r">> >> >>, <<
      Element("link", <<>>, <<>>),
      TextNode(<<"t">>),
      Include(tag, f),
      Comment(<<"c">>),
      Element("joint", <<>>, <<>>) >>) >>)

\* <robot><a><include filename="i"/><b/></a><xacro:include filename="j"/></robot>
NestedDoc ==
  Document(<<
    Element("robot", <<>>, <<
      Element("a", <<>>, << Include("include", NameI), Element("b", <<>>, <<>>) >>),
      Include("xacro:include", NameJ) >>) >>)

\* <robot><include filename="i"/></robot>
OnlyIncludeDoc ==
  Document(<< Element("robot", <<>>, << Include("include", NameI) >>) >>)

\* <robot><xacro:property name="x" value="5"/>
\*   <xacro:macro name="m"><link name="${u}"/></xacro:macro>
\*   <property name="y"><z/></property>
\*   <link name="${x}">${y}</link></robot>
PropertyDoc ==
  Document(<<
    Element("robot", <<>>, <<
      Property("xacro:property", NameX, <<"5">>),
      Element("xacro:macro", << <<AttrName, <<"m">> >> >>,
              << Element("link", << <<AttrName, Span(<<"u">>)>> >>, <<>>) >>),
      Element("property", << <<AttrName, NameY>> >>, << Element("z", <<>>, <<>>) >>),
      Element("link", << <<AttrName, Span(NameX)>> >>, << TextNode(Span(NameY)) >>) >>) >>)

\* <robot><link name="${u}"/></robot>
UndefinedDoc ==
  Document(<<
    Element("robot", <<>>, <<
      Element("link", << <<AttrName, Span(<<"u">>)>> >>, <<>>) >>) >>)

RootDocs ==
  {MixedDoc, InlineDoc, NestedDoc, OnlyIncludeDoc, PropertyDoc, UndefinedDoc}
  \cup {IncludeDoc(tag, f) : tag \in IncludeTags,
                             f \in {NameI, NameJ, NameM, Span(<<"u">>)}}

\* <robot xmlns:a="2" xmlns:b="3" name="i">t<a name="1"/><!--c--><b><c/></b></robot>
PlainIncluded ==
  Document(<<
    Element("robot",
            << <<AttrXmlnsA, <<"2">> >>, <<AttrXmlnsB, <<"3">> >>, <<AttrName, NameI>> >>, <<
      TextNode(<<"t">>),
      Element("a", << <<AttrName, <<"1">> >> >>, <<>>),
      Comment(<<"c">>),
      Element("b", <<>>, << Element("c", <<>>, <<>>) >>) >>) >>)

\* <r><a><include filename="j"/></a><b/></r>
DeepIncluded ==
  Document(<<
    Element("r", <<>>, <<
      Element("a", <<>>, << Include("include", NameJ) >>),
      Element("b", <<>>, <<>>) >>) >>)

\* <r><include filename="i"/></r>
SelfIncluded ==
  Document(<< Element("r", <<>>, << Include("include", NameI) >>) >>)

\* <r><xacro:include filename="j"/><xacro:property name="x" value="7"/>
\*   <c name="${x}"/></r>
ChainIncluded ==
  Document(<<
    Element("r", <<>>, <<
      Include("xacro:include", NameJ),
      Property("xacro:property", NameX, <<"7">>),
      Element("c", << <<AttrName, Span(NameX)>> >>, <<>>) >>) >>)

\* <r/>
EmptyIncluded == Document(<< Element("r", <<>>, <<>>) >>)

FilesI ==
  {NoFile, Malformed} \cup
  {XmlFile(d) : d \in {PlainIncluded, DeepIncluded, SelfIncluded, ChainIncluded,
                        EmptyIncluded}}

\* <r xmlns:a="9"><d/></r>
LeafIncluded ==
  Document(<< Element("r", << <<AttrXmlnsA, <<"9">> >> >>,
                      << Element("d", <<>>, <<>>) >>) >>)

\* <r><include filename="i"/><d/></r>
BackIncluded ==
  Document(<<
    Element("r", <<>>, << Include("include", NameI), Element("d", <<>>, <<>>) >>) >>)

\* <r><include filename="m"/></r>
BrokenIncluded ==
  Document(<< Element("r", <<>>, << Include("include", NameM) >>) >>)

\* <r><include filename="m"/><include filename="i"/></r>
BrokenBackIncluded ==
  Document(<<
    Element("r", <<>>, << Include("include", NameM), Include("include", NameI) >>) >>)

FilesJ ==
  {NoFile} \cup
  {XmlFile(d) : d \in {LeafIncluded, BackIncluded, BrokenIncluded, BrokenBackIncluded}}

FilesR == {NoFile, Malformed} \cup {XmlFile(d) : d \in RootDocs}

\* The filename attributes of the include elements of a tree
RECURSIVE IncludeAttributes(_)
IncludeAttributes(node) ==
  (IF node.nodeType = "ELEMENT_NODE" /\ node.tagName \in IncludeTags
   THEN {getAttribute(node, AttrFilename)} ELSE {})
  \cup UNION {IncludeAttributes(node.childNodes[i]) : i \in 1..Len(node.childNodes)}

\* eval_text(f, {}) of every filename attribute f of the files, computed
\* once for the whole call (eval_text reads nothing but its arguments)
EvaluatedFilenames(files) ==
  [f \in UNION {IncludeAttributes(files[name].doc) : name \in DOMAIN files}
     |-> eval_text(f, NewTable)]

\* filename = eval_text(elt.getAttribute("filename"), {}).  The file names
\* of the model are relative and carry no "$(find ...)" token, so that
\* _expand_find_substitutions leaves them as they are and os.path.join
\* resolves them in the directory of the source, where fs names them.
include_filename(node) ==
  IF getAttribute(node, AttrFilename) \in DOMAIN evaluated
  THEN evaluated[getAttribute(node, AttrFilename)]
  ELSE eval_text(getAttribute(node, AttrFilename), NewTable)

\* What the output file holds before the call, when it exists
OldContent == << Line("text", 0, "", <<>>, <<"o", "l", "d">>) >>

\* The splices of one call stop here (a cycle of includes never ends).
MaxIncludes == 8

ConvInit ==
  /\ xacro_file \in {NameR, NameDashed}
  /\ \E r \in FilesR, i \in FilesI, j \in FilesJ :
       fs = (xacro_file :> r) @@ (NameI :> i) @@ (NameJ :> j)
  /\ evaluated = EvaluatedFilenames(fs)
  /\ dest0 \in {NoOutput, Output(OldContent)}
  /\ py312 \in BOOLEAN
  /\ dest = dest0
  /\ dirExists \in {dest0.exists, TRUE}
  /\ dirExists0 = dirExists
  /\ pc = "isfile"
  /\ err = NoError
  /\ doc = Document(<<>>)
  /\ symbols = NewTable
  /\ macros = <<>>
  /\ previous = NoNode /\ elt = NoNode /\ namespaces = <<>>
  /\ all_includes = <<>>
  /\ TextIdle
  /\ SubstIdle

Init == ConvInit /\ RestIdle

Raise(type, stage, arg) ==
  /\ pc' = "raised"
  /\ err' = Error(type, stage, arg)

\* if not os.path.isfile(xacro_file): raise FileNotFoundError(xacro_file)
CheckSource ==
  /\ pc = "isfile"
  /\ IF fs[xacro_file].isfile
     THEN pc' = "makedirs" /\ UNCHANGED err
     ELSE Raise("FileNotFoundError", "isfile", xacro_file)
  /\ UNCHANGED <<inVars, outVars, scanVars, macros, symbols, doc, textVars, substVars, restVars>>

\* A variant that has the output file opened for writing by now.
MakeDirsOpening ==
  /\ pc = "makedirs"
  /\ pc' = "parse"
  /\ dirExists' = TRUE
  /\ dest' = Output(<<>>)
  /\ UNCHANGED <<err, inVars, scanVars, macros, symbols, doc, textVars, substVars, restVars>>

\* os.makedirs(os.path.dirname(output_urdf_path), exist_ok=True)
MakeDirs ==
  /\ pc = "makedirs"
  /\ pc' = "parse"
  /\ dirExists' = TRUE
  /\ UNCHANGED <<err, dest, inVars, scanVars, macros, symbols, doc, textVars, substVars, restVars>>

\* with open(xacro_file) as f: doc = parse(f)
ParseSource ==
  /\ pc = "parse"
  /\ IF fs[xacro_file].wellFormed
     THEN pc' = "process_includes" /\ doc' = fs[xacro_file].doc /\ UNCHANGED err
     ELSE Raise("ExpatError", "parse", xacro_file) /\ UNCHANGED doc
  /\ UNCHANGED <<inVars, outVars, scanVars, macros, symbols, textVars, substVars, restVars>>

\* all_includes.clear(); process_includes up to its loop
EnterIncludes ==
  /\ pc = "process_includes"
  /\ pc' = "include_loop"
  /\ all_includes' = <<>>
  /\ namespaces' = <<>>
  /\ previous' = documentElement(doc)
  /\ elt' = next_element(doc, documentElement(doc))
  /\ UNCHANGED <<err, inVars, outVars, macros, symbols, doc, textVars, substVars, restVars>>

\* the loop body on an element that is not an include
IncludeSkips ==
  /\ pc = "include_loop"
  /\ elt # NoNode
  /\ NodeAt(doc, elt).tagName \notin IncludeTags
  /\ previous' = elt
  /\ elt' = next_element(doc, elt)
  /\ UNCHANGED <<pc, err, namespaces, all_includes, inVars, outVars, macros, symbols,
                 doc, textVars, substVars, restVars>>

\* the loop body on an include whose filename holds an undefined symbol
IncludeNameRaises ==
  /\ pc = "include_loop"
  /\ elt # NoNode
  /\ NodeAt(doc, elt).tagName \in IncludeTags
  /\ include_filename(NodeAt(doc, elt)).raised
  /\ Raise("KeyError", "process_includes", include_filename(NodeAt(doc, elt)).key)
  /\ UNCHANGED <<inVars, outVars, scanVars, macros, symbols, doc, textVars, substVars, restVars>>

\* the loop body on an include whose file cannot be opened or parsed
IncludeFails ==
  /\ pc = "include_loop"
  /\ elt # NoNode
  /\ NodeAt(doc, elt).tagName \in IncludeTags
  /\ ~include_filename(NodeAt(doc, elt)).raised
  /\ ~Readable(fs, include_filename(NodeAt(doc, elt)).text)
  /\ Raise("XacroException", "process_includes", include_filename(NodeAt(doc, elt)).text)
  /\ UNCHANGED <<inVars, outVars, scanVars, macros, symbols, doc, textVars, substVars, restVars>>

\* the loop body on an include whose file parses
\* A splice with cycle detection: the include of a file included before is
\* removed and nothing is put in its place.
SpliceUnlessIncluded(filename) ==
  IF \E k \in 1..Len(all_includes) : all_includes[k] = filename
  THEN /\ doc' = removeChild(doc, elt)
       /\ elt' = resume_scan(doc', previous, elt, 0)
       /\ UNCHANGED <<all_includes, namespaces>>
  ELSE /\ doc' = splice_included(doc, elt, fs[filename].doc)
       /\ all_includes' = Append(all_includes, filename)
       /\ namespaces' =
            collect_namespaces(
              namespaces,
              NodeAt(fs[filename].doc, documentElement(fs[filename].doc)).attributes, 1)
       /\ elt' = resume_scan(
                   doc', previous, elt,
                   Len(child_elements(NodeAt(fs[filename].doc,
                                             documentElement(fs[filename].doc)))))

SpliceFile(filename) ==
  /\ doc' = splice_included(doc, elt, fs[filename].doc)
  /\ all_includes' = Append(all_includes, filename)
  /\ namespaces' =
       collect_namespaces(
         namespaces,
         NodeAt(fs[filename].doc, documentElement(fs[filename].doc)).attributes, 1)
  /\ elt' = resume_scan(
              doc', previous, elt,
              Len(child_elements(NodeAt(fs[filename].doc,
                                        documentElement(fs[filename].doc)))))

IncludeSplices ==
  /\ pc = "include_loop"
  /\ elt # NoNode
  /\ NodeAt(doc, elt).tagName \in IncludeTags
  /\ ~include_filename(NodeAt(doc, elt)).raised
  /\ Readable(fs, include_filename(NodeAt(doc, elt)).text)
  /\ Len(all_includes) < MaxIncludes
  /\ SpliceFile(include_filename(NodeAt(doc, elt)).text)
  /\ UNCHANGED <<pc, err, previous, inVars, outVars, macros, symbols, textVars, substVars, restVars>>

\* the loop ends: the namespaces collected go on the root element
LeaveIncludes ==
  /\ pc = "include_loop"
  /\ elt = NoNode
  /\ pc' = "grab_macros"
  /\ doc' = apply_namespaces(doc, namespaces)
  /\ UNCHANGED <<err, inVars, outVars, scanVars, macros, symbols, textVars, substVars, restVars>>

\* macros = grab_macros(doc)
GrabMacros ==
  /\ pc = "grab_macros"
  /\ pc' = "grab_properties"
  /\ macros' = grab_macros(doc).macros
  /\ doc' = grab_macros(doc).doc
  /\ UNCHANGED <<err, inVars, outVars, scanVars, symbols, textVars, substVars, restVars>>

\* symbols = grab_properties(doc)
GrabProperties ==
  /\ pc = "grab_properties"
  /\ pc' = "eval_all"
  /\ symbols' = grab_properties(doc).table
  /\ doc' = grab_properties(doc).doc
  /\ UNCHANGED <<err, inVars, outVars, scanVars, macros, textVars, substVars, restVars>>

\* eval_all(doc.documentElement, macros, symbols)
EvalAll ==
  /\ pc = "eval_all"
  /\ doc' = eval_all(doc, documentElement(doc), symbols).doc
  /\ IF eval_all(doc, documentElement(doc), symbols).raised
     THEN Raise("KeyError", "eval_all", eval_all(doc, documentElement(doc), symbols).key)
     ELSE pc' = "banner" /\ UNCHANGED err
  /\ UNCHANGED <<inVars, outVars, scanVars, macros, symbols, textVars, substVars, restVars>>

\* for c in reversed(banner): doc.insertBefore(c, doc.firstChild)
InsertBanner ==
  /\ pc = "banner"
  /\ pc' = "open"
  /\ doc' = Document(banner(xacro_file) \o doc.childNodes)
  /\ UNCHANGED <<err, inVars, outVars, scanVars, macros, symbols, textVars, substVars, restVars>>

\* with open(output_urdf_path, "w") as f: the file is created or truncated
OpenOutput ==
  /\ pc = "open"
  /\ pc' = "write"
  /\ dest' = Output(<<>>)
  /\ UNCHANGED <<err, dirExists, inVars, scanVars, macros, symbols, doc, textVars, substVars, restVars>>

\* f.write(doc.toprettyxml(indent="  ")); f.write("\n")
WriteOutput ==
  /\ pc = "write"
  /\ IF toprettyxml_raises(doc)
     THEN Raise("ValueError", "toprettyxml", xacro_file) /\ UNCHANGED dest
     ELSE /\ pc' = "returned"
          /\ dest' = Output(toprettyxml(doc, py312) \o <<Line("newline", 0, "", <<>>, <<>>)>>)
          /\ UNCHANGED err
  /\ UNCHANGED <<dirExists, inVars, scanVars, macros, symbols, doc, textVars, substVars, restVars>>

Next ==
  \/ CheckSource
  \/ MakeDirs
  \/ ParseSource
  \/ EnterIncludes
  \/ IncludeSkips
  \/ IncludeNameRaises
  \/ IncludeFails
  \/ IncludeSplices
  \/ LeaveIncludes
  \/ GrabMacros
  \/ GrabProperties
  \/ EvalAll
  \/ InsertBanner
  \/ OpenOutput
  \/ WriteOutput

Spec == Init /\ [][Next]_vars

\* The statements of process_includes
ProcessIncludes ==
  \/ EnterIncludes
  \/ IncludeSkips
  \/ IncludeNameRaises
  \/ IncludeFails
  \/ IncludeSplices
  \/ LeaveIncludes

\* The interpreter keeps running process_includes: its next statement, when
\* there is one, is executed.
FairSpec == Spec /\ WF_vars(ProcessIncludes)

(***************************************************************************)
(* Properties of eval_text and eval_expr (SpecText)                        *)
(***************************************************************************)

\* The inner texts of the "${...}" spans of a text, as the text lexer of
\* eval_text cuts them.
RECURSIVE ExprSpansFrom(_)
ExprSpansFrom(lex) ==
  IF QuickLexer_peek(lex) = None THEN <<>>
  ELSE (IF QuickLexer_peek(lex)[1] = LexId(lex, "EXPR")
        THEN <<SubSeq(QuickLexer_peek(lex)[2], 3, Len(QuickLexer_peek(lex)[2]) - 1)>>
        ELSE <<>>)
       \o ExprSpansFrom(QuickLexer_next(lex))

ExprSpans(t) == ExprSpansFrom(QuickLexer_lex(QuickLexer(TextPatterns), t))

\* The text is one "${...}" span and nothing else.
SingleSpan(t) == Len(ExprSpans(t)) = 1 /\ t = Span(ExprSpans(t)[1])

\* The first token of an expression, as the expression lexer yields it.
FirstToken(e) == QuickLexer_peek(QuickLexer_lex(QuickLexer(ExprPatterns), e))

IsKind(tok, kinds) ==
  tok # None /\ \E k \in kinds : tok[1] = LexId(QuickLexer(ExprPatterns), k)

\* What the call of eval_text did, in the shape eval_text gives.
Outcome == [raised |-> tpc = "raised", key |-> terr, text |-> tout]

\* C2: a "${...}" span whose first token is an identifier that no property
\* defines makes the evaluation raise the KeyError of an undefined name,
\* whatever the identifier's spelling.
C2_UndefinedSymbolRaises ==
  (/\ tpc # "call"
   /\ \E i \in 1..Len(ExprSpans(text)) :
        /\ IsKind(FirstToken(ExprSpans(text)[i]), {"SYMBOL"})
        /\ Table_raises(symbols, FirstToken(ExprSpans(text)[i])[2]))
  => (tpc = "raised" /\ Table_raises(symbols, terr))

\* C3: for a property declared with the literal v, "${x}" is replaced by
\* exactly v, and "a${x}b" by a, v, b in that order.
C3_LiteralRenderedVerbatim ==
  \A name \in DOMAIN symbols.table :
    \A a \in {<<>>, <<"a">>} : \A b \in {<<>>, <<"b">>} :
      (/\ tpc # "call"
       /\ ~symbols.table[name].isElement
       /\ text = a \o Span(name) \o b)
      => (tpc = "returned" /\ tout = a \o symbols.table[name].str \o b)

\* C4: eval_expr consumes one token.  An expression whose first token is a
\* number or a symbol evaluates as that token alone does, whatever follows
\* it; an empty expression and one whose first token is an operator or a
\* parenthesis evaluate to the number zero.
C4_OnlyFirstTokenEvaluated ==
  (tpc # "call" /\ SingleSpan(text)) =>
    /\ IsKind(FirstToken(ExprSpans(text)[1]), {"NUMBER", "SYMBOL"})
         => Outcome = eval_text(Span(FirstToken(ExprSpans(text)[1])[2]), symbols)
    /\ (\/ ExprSpans(text)[1] = <<>>
        \/ IsKind(FirstToken(ExprSpans(text)[1]), {"OP", "LPAREN", "RPAREN"}))
         => (tpc = "returned" /\ tout = <<"0">>)

\* "${1 + 2}" has been evaluated to "1.0", and "${x u}" with u undefined
\* to the value of x.
C4_Witness ==
  \/ /\ tpc = "returned"
     /\ text = Span(<<"1", " ", "+", " ", "2">>)
     /\ tout = <<"1", ".", "0">>
  \/ /\ tpc = "returned"
     /\ text = Span(<<"x", " ", "u">>)
     /\ symbols = PlainSymbols
     /\ tout = <<"5", ".", "0">>

\* C5: whitespace around the one number or symbol inside the braces changes
\* nothing: "${ t }" evaluates as "${t}" does.
C5_WhitespaceIgnored ==
  (/\ tpc # "call"
   /\ SingleSpan(text)
   /\ StripRight(StripLeft(ExprSpans(text)[1])) # <<>>
   /\ \/ MatchNUMBER(StripRight(StripLeft(ExprSpans(text)[1])))
           = Len(StripRight(StripLeft(ExprSpans(text)[1])))
      \/ MatchSYMBOL(StripRight(StripLeft(ExprSpans(text)[1])))
           = Len(StripRight(StripLeft(ExprSpans(text)[1]))))
  => Outcome = eval_text(Span(StripRight(StripLeft(ExprSpans(text)[1]))), symbols)

(***************************************************************************)
(* Properties of eval_all (SpecSubst)                                      *)
(***************************************************************************)

\* The attribute values and the text-node contents of a tree.
RECURSIVE StringsOf(_)
StringsOf(node) ==
  {node.attributes[i][2] : i \in 1..Len(node.attributes)}
  \cup (IF node.nodeType = "TEXT_NODE" THEN {node.data} ELSE {})
  \cup UNION {StringsOf(node.childNodes[i]) : i \in 1..Len(node.childNodes)}

\* The string contains a "${...}" span.
HasSpan(s) ==
  \E i \in 1..Len(s) : \E j \in 1..Len(s) :
    j >= i + 2 /\ s[i] = "$" /\ s[i + 1] = "{" /\ s[j] = "}"

\* C6: after eval_all has returned, no attribute value and no text node of
\* the tree contains a "${...}" span.
C6_NoSpanLeft ==
  epc = "once" => \A s \in StringsOf(doc) : ~HasSpan(s)

\* C7: a second eval_all with the same symbols over the tree a first
\* eval_all produced changes nothing.
C7_SecondPassChangesNothing ==
  epc \in {"twice", "raised again"} => (epc = "twice" /\ doc = doc1)

(***************************************************************************)
(* Properties of convert_xacro_to_urdf (Spec, FairSpec)                    *)
(***************************************************************************)

\* The statements before the output file is opened
BeforeOpen ==
  {"isfile", "makedirs", "parse", "process_includes", "include_loop",
   "grab_macros", "grab_properties", "eval_all", "banner", "open"}

\* C1: a conversion that fails on a missing source, a malformed root
\* document, an include that cannot be read or parsed, or an undefined
\* symbol raises with the file at the destination as it was before the call;
\* the destination is opened only once include resolution, extraction and
\* substitution are over, and a conversion that returns had a source and
\* includes that could all be read.
C1_FailureLeavesDestination ==
  /\ (pc = "raised"
      /\ err.type \in {"FileNotFoundError", "ExpatError", "XacroException", "KeyError"})
     => dest = dest0
  /\ pc \in BeforeOpen => dest = dest0
  /\ pc = "returned"
     => /\ Readable(fs, xacro_file)
        /\ \A k \in 1..Len(all_includes) : Readable(fs, all_includes[k])

\* An undefined symbol met by eval_all, with an older file at the destination
C1_Witness ==
  /\ pc = "raised"
  /\ err.type = "KeyError"
  /\ err.stage = "eval_all"
  /\ dest0 = Output(OldContent)
  /\ dest = dest0

\* The elements of a tree in document order, each as its tag and the set of
\* its attributes
RECURSIVE ElementsOf(_)
RECURSIVE ElementsOfAll(_, _)
ElementsOfAll(kids, i) ==
  IF i > Len(kids) THEN <<>>
  ELSE ElementsOf(kids[i]) \o ElementsOfAll(kids, i + 1)

ElementsOf(node) ==
  (IF node.nodeType = "ELEMENT_NODE"
   THEN << <<node.tagName, {node.attributes[i] : i \in 1..Len(node.attributes)}>> >>
   ELSE <<>>)
  \o ElementsOfAll(node.childNodes, 1)

\* The text nodes of a tree in document order
RECURSIVE TextsOf(_)
RECURSIVE TextsOfAll(_, _)
TextsOfAll(kids, i) ==
  IF i > Len(kids) THEN <<>>
  ELSE TextsOf(kids[i]) \o TextsOfAll(kids, i + 1)

TextsOf(node) ==
  (IF node.nodeType = "TEXT_NODE" THEN <<node.data>> ELSE <<>>)
  \o TextsOfAll(node.childNodes, 1)

\* The same of the lines written
RECURSIVE WrittenElements(_, _)
WrittenElements(lines, i) ==
  IF i > Len(lines) THEN <<>>
  ELSE (IF lines[i].kind \in {"open", "empty", "inline"}
        THEN << <<lines[i].tag, {lines[i].attrs[k] : k \in 1..Len(lines[i].attrs)}>> >>
        ELSE <<>>)
       \o WrittenElements(lines, i + 1)

RECURSIVE WrittenTexts(_, _)
WrittenTexts(lines, i) ==
  IF i > Len(lines) THEN <<>>
  ELSE (IF lines[i].kind \in {"inline", "text"} THEN <<lines[i].data>> ELSE <<>>)
       \o WrittenTexts(lines, i + 1)

\* No include, macro or property element, and no "${...}" span in any
\* attribute value or text node
ExpressionFree(d) ==
  /\ \A i \in 1..Len(ElementsOf(d)) :
       ElementsOf(d)[i][1] \notin IncludeTags \cup MacroTags \cup PropertyTags
  /\ \A str \in StringsOf(d) : ~HasSpan(str)

\* C8: the output written for an input with no include, macro or property
\* element and no "${...}" span holds the same elements with the same tags
\* and attribute name/value pairs, and every text node of the input
\* unchanged.
C8_ExpressionFreeRoundTrip ==
  (pc = "returned" /\ ExpressionFree(fs[xacro_file].doc))
  => /\ WrittenElements(dest.content, 1) = ElementsOf(fs[xacro_file].doc)
     /\ WrittenTexts(dest.content, 1) = TextsOf(fs[xacro_file].doc)

\* The filename of an include element that names no symbol; <<>> otherwise
PlainFilename(node) ==
  IF include_filename(node).raised THEN <<>> ELSE include_filename(node).text

\* The children of an element with every include element among them, at
\* any depth and in the files included too, replaced by the copies of the
\* element children of the root of its file.  (Defined on includes that
\* resolve and do not form a cycle.)
RECURSIVE Expanded(_, _)
ExpandedNode(node) ==
  IF node.nodeType = "ELEMENT_NODE"
  THEN [node EXCEPT !.childNodes = Expanded(node.childNodes, 1)]
  ELSE node

Expanded(kids, i) ==
  IF i > Len(kids) THEN <<>>
  ELSE IF kids[i].nodeType = "ELEMENT_NODE" /\ kids[i].tagName \in IncludeTags
  THEN Expanded(
         child_elements(
           NodeAt(fs[PlainFilename(kids[i])].doc,
                  documentElement(fs[PlainFilename(kids[i])].doc))), 1)
       \o Expanded(kids, i + 1)
  ELSE <<ExpandedNode(kids[i])>> \o Expanded(kids, i + 1)

SourceRoot == NodeAt(fs[xacro_file].doc, documentElement(fs[xacro_file].doc))
Root == NodeAt(doc, documentElement(doc))
IncludedRoot(k) ==
  NodeAt(fs[all_includes[k]].doc, documentElement(fs[all_includes[k]].doc))

AttrSet(node) == {node.attributes[i] : i \in 1..Len(node.attributes)}

\* The xmlns: attribute names of the roots of the files included, and the
\* value the last file that has the name gives it
IncludedNamespaces ==
  {a[1] : a \in UNION {{b \in AttrSet(IncludedRoot(k)) : StartsWith(b[1], XmlnsPrefix)}
                         : k \in 1..Len(all_includes)}}

LastNamespace(name) ==
  getAttribute(
    IncludedRoot(SetMax({k \in 1..Len(all_includes) : hasAttribute(IncludedRoot(k), name)})),
    name)

\* C9 as stated: when process_includes has returned every include element
\* is replaced, at its own position, by copies of the element children of
\* the root of its file, in their order, and every other node of the
\* document, the attributes of the ancestors included, is unchanged.
C9_IncludeInlinedNothingElseChanged ==
  pc = "grab_macros"
  => doc = Document(<<[SourceRoot EXCEPT !.childNodes = Expanded(@, 1)]>>)

\* C9, amended: when process_includes has returned every include element
\* is replaced, at its own position, by copies of the element children of
\* the root of its file, in their order, and every other node of the
\* document is unchanged, except that the root element has received the
\* xmlns: attributes of the roots of the files included (added, or
\* overwritten when the root had the name already).
C9_IncludeInlined ==
  pc = "grab_macros"
  => /\ Len(doc.childNodes) = 1
     /\ Root.nodeType = "ELEMENT_NODE"
     /\ Root.tagName = SourceRoot.tagName
     /\ Root.childNodes = Expanded(SourceRoot.childNodes, 1)
     /\ AttrSet(Root) =
          {a \in AttrSet(SourceRoot) : a[1] \notin IncludedNamespaces}
          \cup {<<name, LastNamespace(name)>> : name \in IncludedNamespaces}
     /\ Len(Root.attributes) = Cardinality(AttrSet(Root))

\* An include between other nodes, of a file whose root has namespaces
C9_Witness ==
  /\ pc = "grab_macros"
  /\ fs[xacro_file].doc = IncludeDoc("xacro:include", NameI)
  /\ fs[NameI].doc = PlainIncluded
  /\ all_includes = <<NameI>>

\* The include elements of a tree, and the file names they give
IncludesIn(d) ==
  {i \in 1..Len(ElementsOf(d)) : ElementsOf(d)[i][1] \in IncludeTags}

RECURSIVE FilenamesOf(_)
FilenamesOf(node) ==
  (IF node.nodeType = "ELEMENT_NODE" /\ node.tagName \in IncludeTags
   THEN {PlainFilename(node)} ELSE {})
  \cup UNION {FilenamesOf(node.childNodes[i]) : i \in 1..Len(node.childNodes)}

\* Every include reached from the file can be read, and none leads back to
\* a file of seen
RECURSIVE Resolves(_, _)
Resolves(filename, seen) ==
  /\ filename \notin seen
  /\ Readable(fs, filename)
  /\ \A g \in FilenamesOf(fs[filename].doc) : Resolves(g, seen \cup {filename})

\* The include graph reachable from the root document is acyclic and every
\* include target is readable.
IncludesResolve == Resolves(xacro_file, {})

\* C10: when the include graph reachable from the root document is acyclic
\* and every include target is readable, process_includes terminates, and
\* no include element remains in the document, at any depth, when it
\* returns.
C10_NestedIncludesResolved ==
  (pc = "process_includes" /\ IncludesResolve)
  ~> (pc = "grab_macros" /\ IncludesIn(doc) = {})

\* Includes nested in an included file, inlined
C10_Witness ==
  /\ pc = "grab_macros"
  /\ IncludesResolve
  /\ fs[xacro_file].doc = NestedDoc
  /\ fs[NameI].doc = DeepIncluded
  /\ all_includes = <<NameI, NameJ, NameJ>>
  /\ IncludesIn(doc) = {}


(***************************************************************************)
(* Specification of eval_self_contained                                    *)
(***************************************************************************)

\* The children of the robot element are at most MaxItems of these items.
MaxItems == 3

NameK == <<"k">>

\* <xacro:macro name="m"><property name="x" value="3"/><macro name="k"/><c/>
\* </xacro:macro>
MacroItem ==
  Element("xacro:macro", << <<AttrName, NameM>> >>,
          << Property("property", NameX, <<"3">>),
             Element("macro", << <<AttrName, NameK>> >>, <<>>),
             Element("c", <<>>, <<>>) >>)

\* <property name="y"><z/><xacro:property name="x" value="4"/></property>
BlockItem ==
  Element("property", << <<AttrName, NameY>> >>,
          << Element("z", <<>>, <<>>),
             Property("xacro:property", NameX, <<"4">>) >>)

\* <a><macro name="i"/><property name="w" value="ab"/><b name="${w}"/></a>
NestItem ==
  Element("a", <<>>,
          << Element("macro", << <<AttrName, NameI>> >>, <<>>),
             Property("property", NameW, <<"a", "b">>),
             Element("b", << <<AttrName, Span(NameW)>> >>, <<>>) >>)

SelfItems ==
  { Property("xacro:property", NameX, <<"1">>),
    Property("property", NameX, <<"2">>),
    Property("xacro:property", NameNan, <<"7">>),
    Element("link", << <<AttrName, Span(NameX)>> >>, <<>>),
    Element("j", << <<AttrName, Span(NameNan)>> >>, <<>>),
    MacroItem, BlockItem, NestItem }

RECURSIVE ItemsUpTo(_)
ItemsUpTo(n) ==
  IF n = 0 THEN {<<>>}
  ELSE ItemsUpTo(n - 1)
       \cup {Append(kids, item) : kids \in ItemsUpTo(n - 1), item \in SelfItems}

SelfDocs == {Document(<< Element("robot", <<>>, kids) >>) : kids \in ItemsUpTo(MaxItems)}

\* The tree as include resolution left it, at the call of
\* eval_self_contained; doc1 keeps that tree.
InitSelf ==
  /\ TextIdle
  /\ epc = "idle"
  /\ doc \in SelfDocs
  /\ doc1 = doc
  /\ pc = "grab_macros" /\ err = NoError
  /\ xacro_file = <<>> /\ fs = <<>> /\ evaluated = <<>> /\ dest0 = NoOutput
  /\ py312 = FALSE
  /\ dest = NoOutput /\ dirExists = FALSE /\ dirExists0 = FALSE
  /\ previous = NoNode /\ elt = NoNode /\ namespaces = <<>>
  /\ all_includes = <<>> /\ macros = <<>>
  /\ symbols = NewTable
  /\ RestIdle

\* eval_self_contained(doc): its three statements
NextSelf == GrabMacros \/ GrabProperties \/ EvalAll

SpecSelf == InitSelf /\ [][NextSelf]_vars

(***************************************************************************)
(* Properties of eval_self_contained (SpecSelf)                            *)
(***************************************************************************)

DirectiveTags == MacroTags \cup PropertyTags

\* What "${name}" is to become by the recorded values: the value of the
\* name in the table, a string without a span as it is.
Recorded(table, s) ==
  IF SingleSpan(s) /\ ExprSpans(s)[1] \in DOMAIN table.table
  THEN table.table[ExprSpans(s)[1]].str
  ELSE s

\* The elements of a tree that are no directive and in no macro body, in
\* document order, with the spans of their attributes by the recorded values
RECURSIVE KeptElements(_, _)
RECURSIVE KeptElementsAll(_, _, _)
KeptElementsAll(kids, i, table) ==
  IF i > Len(kids) THEN <<>>
  ELSE KeptElements(kids[i], table) \o KeptElementsAll(kids, i + 1, table)

KeptElements(node, table) ==
  IF node.nodeType # "ELEMENT_NODE" \/ node.tagName \in MacroTags THEN <<>>
  ELSE (IF node.tagName \in PropertyTags THEN <<>>
        ELSE << <<node.tagName,
                  {<<node.attributes[i][1], Recorded(table, node.attributes[i][2])>> :
                     i \in 1..Len(node.attributes)}>> >>)
       \o KeptElementsAll(node.childNodes, 1, table)

\* eval_self_contained has returned.
SelfReturned == pc = "banner"

\* C11: after eval_self_contained no macro and no property element is left at
\* any depth; every other element that was outside a macro body is still
\* there, in the original order; and the "${name}" spans are replaced by the
\* values recorded from the removed property elements.
C11_DirectivesExtracted ==
  SelfReturned =>
    /\ \A i \in 1..Len(ElementsOf(doc)) : ElementsOf(doc)[i][1] \notin DirectiveTags
    /\ ElementsOf(doc) = KeptElements(NodeAt(doc1, documentElement(doc1)), symbols)

\* The macro-definition elements of a tree, at any depth, those inside
\* another macro definition included
RECURSIVE MacroElements(_)
MacroElements(node) ==
  (IF node.nodeType = "ELEMENT_NODE" /\ node.tagName \in MacroTags THEN {node} ELSE {})
  \cup UNION {MacroElements(node.childNodes[i]) : i \in 1..Len(node.childNodes)}

MacroKeys(m) == {getAttribute(m, AttrName), XacroPrefix \o getAttribute(m, AttrName)}

\* C12: for every macro-definition element beneath the root, at the top
\* level or nested at any depth, one inside another macro definition
\* included, grab_macros registers the element's subtree under its name n
\* and under "xacro:" + n; the table has those two keys for each macro
\* definition and no other key.
C12_EveryMacroRegistered ==
  pc = "grab_properties" =>
    /\ {macros[i][1] : i \in 1..Len(macros)}
         = UNION {MacroKeys(m) : m \in MacroElements(doc1)}
    /\ \A i \in 1..Len(macros) :
         macros[i][2] \in MacroElements(doc1) /\ macros[i][1] \in MacroKeys(macros[i][2])

\* The property declarations of a tree outside the macro bodies, in
\* document order, each as its name and its value
RECURSIVE Declarations(_)
RECURSIVE DeclarationsAll(_, _)
DeclarationsAll(kids, i) ==
  IF i > Len(kids) THEN <<>>
  ELSE Declarations(kids[i]) \o DeclarationsAll(kids, i + 1)

Declarations(node) ==
  IF node.nodeType # "ELEMENT_NODE" \/ node.tagName \in MacroTags THEN <<>>
  ELSE (IF node.tagName \in PropertyTags
        THEN << <<getAttribute(node, AttrName), property_value(node)>> >>
        ELSE <<>>)
       \o DeclarationsAll(node.childNodes, 1)

\* The table of the last declaration of every name
LastDeclared(decls) ==
  [table |->
     [n \in {decls[i][1] : i \in 1..Len(decls)} |->
        decls[SetMax({i \in 1..Len(decls) : decls[i][1] = n})][2]],
   hasParent |-> FALSE, parent |-> <<>>]

UsesSpan(e) == \E a \in e[2] : SingleSpan(a[2])
WithAttributes(e) == e[2] # {}

\* C13: when a property name is declared several times, the table holds the
\* value of the declaration that is last in document order, and every
\* "${name}" span, one before that declaration included, is replaced by
\* that last value.
C13_LastDeclarationWins ==
  /\ pc = "eval_all" =>
       symbols = LastDeclared(Declarations(NodeAt(doc1, documentElement(doc1))))
  /\ SelfReturned =>
       SelectSeq(ElementsOf(doc), WithAttributes)
         = SelectSeq(KeptElements(NodeAt(doc1, documentElement(doc1)),
                                  LastDeclared(Declarations(NodeAt(doc1, documentElement(doc1))))),
                     WithAttributes)

(***************************************************************************)
(* Specification of the serializer (fixed_writexml)                        *)
(***************************************************************************)

\* The attributes an element declares are at most MaxAttrs of these, each
\* name once, in any order; "B" < "a" < "ab" < "name" < "xmlns:a" < "z" by
\* code point.
MaxAttrs == 3

NameQuoted == <<"x", "\"", "y">>

WriteAttributes ==
  { <<<<"z">>, <<"1">>>>,
    <<<<"a">>, NameQuoted>>,
    <<<<"a", "b">>, <<"a", "&", "b">>>>,
    <<<<"B">>, <<"<", "c", ">">>>>,
    <<AttrName, <<>>>>,
    <<AttrXmlnsA, <<"u">>>> }

RECURSIVE AttributesUpTo(_)
AttributesUpTo(n) ==
  IF n = 0 THEN {<<>>}
  ELSE AttributesUpTo(n - 1)
       \cup UNION {{Append(attrs, a) :
                      a \in {b \in WriteAttributes :
                               \A i \in 1..Len(attrs) : attrs[i][1] # b[1]}} :
                    attrs \in AttributesUpTo(n - 1)}

\* An element written on one line (no child), inline (one text child) and
\* over several lines (an element child, with the same attributes reversed)
Reversed(attrs) == [i \in 1..Len(attrs) |-> attrs[Len(attrs) + 1 - i]]

WriteDocs ==
  UNION {{ Document(<< Element("robot", attrs, <<>>) >>),
           Document(<< Element("robot", attrs, << TextNode(NameQuoted) >>) >>),
           Document(<< Element("robot", attrs,
                               << Element("link", Reversed(attrs), <<>>) >>) >>) } :
         attrs \in AttributesUpTo(MaxAttrs)}

\* The tree at f.write(doc.toprettyxml(indent="  ")), the output file open
InitWrite ==
  /\ TextIdle
  /\ SubstIdle
  /\ doc \in WriteDocs
  /\ py312 \in BOOLEAN
  /\ pc = "write" /\ err = NoError
  /\ xacro_file = NameR /\ fs = <<>> /\ evaluated = <<>> /\ dest0 = NoOutput
  /\ dest = Output(<<>>) /\ dirExists = TRUE /\ dirExists0 = TRUE
  /\ previous = NoNode /\ elt = NoNode /\ namespaces = <<>>
  /\ all_includes = <<>> /\ macros = <<>>
  /\ symbols = NewTable
  /\ RestIdle

NextWrite == WriteOutput

SpecWrite == InitWrite /\ [][NextWrite]_vars

(***************************************************************************)
(* Properties of the serializer (SpecWrite)                                *)
(***************************************************************************)

\* The elements of a tree in document order, each as its tag and the
\* sequence of its attributes as declared
RECURSIVE DeclaredOf(_)
RECURSIVE DeclaredOfAll(_, _)
DeclaredOfAll(kids, i) ==
  IF i > Len(kids) THEN <<>>
  ELSE DeclaredOf(kids[i]) \o DeclaredOfAll(kids, i + 1)

DeclaredOf(node) ==
  (IF node.nodeType = "ELEMENT_NODE" THEN << <<node.tagName, node.attributes>> >> ELSE <<>>)
  \o DeclaredOfAll(node.childNodes, 1)

\* The start tags written, in the order written, each as its tag and the
\* sequence of its attributes as written
StartTags(lines) ==
  SelectSeq([i \in 1..Len(lines) |-> <<lines[i].tag, lines[i].attrs, lines[i].kind>>],
            LAMBDA l : l[3] \in {"open", "empty", "inline"})

\* The value a reader of name="w" takes: the characters up to the closing
\* quote, the entities replaced by their characters
RECURSIVE AttributeRead(_)
AttributeRead(w) ==
  IF w = <<>> \/ w[1] = "\"" THEN <<>>
  ELSE IF StartsWith(w, <<"&", "a", "m", "p", ";">>) THEN <<"&">> \o AttributeRead(Drop(w, 5))
  ELSE IF StartsWith(w, <<"&", "l", "t", ";">>) THEN <<"<">> \o AttributeRead(Drop(w, 4))
  ELSE IF StartsWith(w, <<"&", "g", "t", ";">>) THEN <<">">> \o AttributeRead(Drop(w, 4))
  ELSE IF StartsWith(w, <<"&", "q", "u", "o", "t", ";">>)
  THEN <<"\"">> \o AttributeRead(Drop(w, 6))
  ELSE <<w[1]>> \o AttributeRead(Tail(w))

\* The attributes written are the declared ones in ascending order of the
\* names, each once and with its value.
SortedAsDeclared(written, declared) ==
  /\ Len(written) = Len(declared)
  /\ \A i \in 1..(Len(written) - 1) : StrLess(written[i][1], written[i + 1][1])
  /\ \A i \in 1..Len(declared) :
       \E k \in 1..Len(written) :
         /\ written[k][1] = declared[i][1]
         /\ AttributeRead(written[k][2]) = declared[i][2]

\* C14: for every element and every order in which its attributes were
\* declared, the serializer writes the attributes in ascending order of
\* their names, each exactly once and with its value unchanged.
C14_AttributesSortedValuesKept ==
  pc = "returned" =>
    /\ Len(StartTags(dest.content)) = Len(DeclaredOf(doc))
    /\ \A i \in 1..Len(DeclaredOf(doc)) :
         /\ StartTags(dest.content)[i][1] = DeclaredOf(doc)[i][1]
         /\ SortedAsDeclared(StartTags(dest.content)[i][2], DeclaredOf(doc)[i][2])

(***************************************************************************)
(* Properties of process_includes: namespaces (Spec)                       *)
(***************************************************************************)

Namespaces(node) == {a \in AttrSet(node) : StartsWith(a[1], XmlnsPrefix)}

\* The last of the files included whose root declares the name
LastDeclaring(name) ==
  SetMax({k \in 1..Len(all_includes) : hasAttribute(IncludedRoot(k), name)})

\* C15: when process_includes has returned, the root element carries every
\* xmlns: attribute of the root of every file included, directly or through
\* a nested include; for a name that several of these roots, or one of them
\* and the including root, declare, the value is that of the file resolved
\* last; and no other attribute of an included root is copied.
C15_NamespacesPropagated ==
  pc = "grab_macros" =>
    /\ \A k \in 1..Len(all_includes) :
         \A a \in Namespaces(IncludedRoot(k)) :
           /\ hasAttribute(Root, a[1])
           /\ getAttribute(Root, a[1]) = getAttribute(IncludedRoot(LastDeclaring(a[1])), a[1])
    /\ \A a \in AttrSet(Root) :
         \/ a \in AttrSet(SourceRoot)
         \/ \E k \in 1..Len(all_includes) : a \in Namespaces(IncludedRoot(k))

\* Two files included, one of them nested in an element, whose roots give
\* xmlns:a different values; the first has a name attribute as well
C15_Witness ==
  /\ pc = "grab_macros"
  /\ fs[xacro_file].doc = NestedDoc
  /\ fs[NameI].doc = PlainIncluded
  /\ fs[NameJ].doc = LeafIncluded
  /\ all_includes = <<NameI, NameJ>>
  /\ getAttribute(Root, AttrXmlnsA) = <<"9">>
  /\ getAttribute(Root, AttrXmlnsB) = <<"3">>
  /\ ~hasAttribute(Root, AttrName)

(***************************************************************************)
(* Specification of the command line (main)                                *)
(***************************************************************************)

\* getopt.gnu_getopt(sys.argv[1:], "ho:", []), as the library computes it.
\* A result is [error, opts, args]: error when GetoptError is raised.
ShortOpts == <<"h", "o", ":">>

GetoptError == [error |-> TRUE, opts |-> <<>>, args |-> <<>>]
Parsed(os, as) == [error |-> FALSE, opts |-> os, args |-> as]

\* short_has_arg(opt, shortopts): "unknown", or whether opt takes an argument
short_has_arg(opt) ==
  IF \E i \in 1..Len(ShortOpts) : opt = ShortOpts[i] /\ opt # ":"
  THEN LET i == CHOOSE k \in 1..Len(ShortOpts) : opt = ShortOpts[k]
       IN  IF i < Len(ShortOpts) /\ ShortOpts[i + 1] = ":" THEN "yes" ELSE "no"
  ELSE "unknown"

\* do_shorts(opts, optstring, shortopts, args)
RECURSIVE do_shorts(_, _, _)
do_shorts(os, optstring, as) ==
  IF optstring = <<>> THEN Parsed(os, as)
  ELSE IF short_has_arg(optstring[1]) = "unknown" THEN GetoptError
  ELSE IF short_has_arg(optstring[1]) = "no"
  THEN do_shorts(Append(os, << <<"-", optstring[1]>>, <<>> >>), Tail(optstring), as)
  ELSE IF Tail(optstring) # <<>>
  THEN Parsed(Append(os, << <<"-", optstring[1]>>, Tail(optstring) >>), as)
  ELSE IF as = <<>> THEN GetoptError
  ELSE Parsed(Append(os, << <<"-", optstring[1]>>, as[1] >>), Tail(as))

\* The while loop of gnu_getopt; with longopts = [] do_longs raises for every
\* argument that starts with "--" and is not "--" itself.
RECURSIVE gnu_getopt_loop(_, _, _, _)
gnu_getopt_shorts(shorts, prog_args, all_options_first) ==
  IF shorts.error THEN GetoptError
  ELSE gnu_getopt_loop(shorts.opts, prog_args, shorts.args, all_options_first)

gnu_getopt_loop(os, prog_args, as, all_options_first) ==
  IF as = <<>> THEN Parsed(os, prog_args)
  ELSE IF as[1] = <<"-", "-">> THEN Parsed(os, prog_args \o Tail(as))
  ELSE IF StartsWith(as[1], <<"-", "-">>) THEN GetoptError
  ELSE IF StartsWith(as[1], <<"-">>) /\ as[1] # <<"-">>
  THEN gnu_getopt_shorts(do_shorts(os, Tail(as[1]), Tail(as)), prog_args, all_options_first)
  ELSE IF all_options_first THEN Parsed(os, prog_args \o as)
  ELSE gnu_getopt_loop(os, Append(prog_args, as[1]), Tail(as), all_options_first)

gnu_getopt(as, all_options_first) == gnu_getopt_loop(<<>>, <<>>, as, all_options_first)

\* os.path.splitext(p)[0]: the extension starts at the last dot of the last
\* component, unless only dots come before it there.
LastIndex(p, c) == SetMax({0} \cup {i \in 1..Len(p) : p[i] = c})

splitext_root(p) ==
  IF /\ LastIndex(p, ".") > LastIndex(p, "/")
     /\ \E k \in (LastIndex(p, "/") + 1)..(LastIndex(p, ".") - 1) : p[k] # "."
  THEN Take(p, LastIndex(p, ".") - 1)
  ELSE p

UrdfExtension == <<".", "u", "r", "d", "f">>
UsageLine == <<"Usage: xacro_converter.py [-o output.urdf] input.xacro">>

Some(x) == <<x>>

\* for o, a in opts: the first -h ends the loop with print_usage(0); without
\* one the last -o gives output.
OptionH == <<"-", "h">>
OptionO == <<"-", "o">>
RECURSIVE options_loop(_, _, _)
options_loop(os, i, out) ==
  IF i > Len(os) THEN [usage |-> FALSE, output |-> out]
  ELSE IF os[i][1] = OptionH THEN [usage |-> TRUE, output |-> out]
  ELSE IF os[i][1] = OptionO THEN options_loop(os, i + 1, Some(os[i][2]))
  ELSE options_loop(os, i + 1, out)

\* The arguments are at most MaxArgs of these.
MaxArgs == 3

ArgTokens ==
  { <<"-", "h">>, <<"-", "o">>, <<"-", "x">>, <<"-", "h", "o">>, <<"-", "o", "b">>,
    <<"-", "-">>, <<"-", "-", "h">>, <<"-">>,
    <<"i", ".", "x">>, <<".", "x">>, <<"a">>, <<"d", ".", "v", "/", "i">> }

RECURSIVE ArgsUpTo(_)
ArgsUpTo(n) ==
  IF n = 0 THEN {<<>>}
  ELSE ArgsUpTo(n - 1) \cup {Append(as, a) : as \in ArgsUpTo(n - 1), a \in ArgTokens}

InitMain ==
  /\ TextIdle
  /\ SubstIdle
  /\ ConvIdle
  /\ symbols = NewTable
  /\ doc = Document(<<>>)
  /\ argv \in ArgsUpTo(MaxArgs)
  /\ posixly_correct \in BOOLEAN
  /\ mpc = "getopt"
  /\ opts = <<>> /\ args = <<>> /\ output = None
  /\ status = NoStatus /\ stdout = <<>> /\ call = None
  /\ OtherIdle
  /\ RunIdle
  /\ FindIdle
  /\ CleanupIdle

\* print_usage(code): the usage line, then sys.exit(code)
print_usage(code) ==
  /\ stdout' = Append(stdout, UsageLine)
  /\ status' = code
  /\ mpc' = "exited"

\* try: opts, args = getopt.gnu_getopt(sys.argv[1:], "ho:", [])
\* except getopt.GetoptError: print_usage(2)
MainGetopt ==
  /\ mpc = "getopt"
  /\ IF gnu_getopt(argv, posixly_correct).error
     THEN print_usage(2) /\ UNCHANGED <<opts, args>>
     ELSE /\ opts' = gnu_getopt(argv, posixly_correct).opts
          /\ args' = gnu_getopt(argv, posixly_correct).args
          /\ mpc' = "options"
          /\ UNCHANGED <<status, stdout>>
  /\ UNCHANGED <<argv, posixly_correct, output, call>>
  /\ UNCHANGED <<textVars, substVars, convVars, symbols, doc, otherVars, runVars, findVars, cleanupVars>>

\* A main that looks at the positional arguments before the options
MainArgsFirst ==
  /\ mpc = "options"
  /\ output' = options_loop(opts, 1, None).output
  /\ IF args = <<>>
     THEN print_usage(2)
     ELSE IF options_loop(opts, 1, None).usage
     THEN print_usage(0)
     ELSE mpc' = "args" /\ UNCHANGED <<status, stdout>>
  /\ UNCHANGED <<argv, posixly_correct, opts, args, call>>
  /\ UNCHANGED <<textVars, substVars, convVars, symbols, doc, otherVars, runVars, findVars, cleanupVars>>

\* output = None; for o, a in opts: ...
MainOptions ==
  /\ mpc = "options"
  /\ output' = options_loop(opts, 1, None).output
  /\ IF options_loop(opts, 1, None).usage
     THEN print_usage(0)
     ELSE mpc' = "args" /\ UNCHANGED <<status, stdout>>
  /\ UNCHANGED <<argv, posixly_correct, opts, args, call>>
  /\ UNCHANGED <<textVars, substVars, convVars, symbols, doc, otherVars, runVars, findVars, cleanupVars>>

\* if not args: print_usage(2)
\* xacro = args[0]; if output is None: output = splitext(xacro)[0] + ".urdf"
\* convert_xacro_to_urdf(xacro, output): the call, whose statements are the
\* actions of Spec
MainConvert ==
  /\ mpc = "args"
  /\ IF args = <<>>
     THEN print_usage(2) /\ UNCHANGED <<output, call>>
     ELSE /\ output' = IF output = None
                       THEN Some(splitext_root(args[1]) \o UrdfExtension)
                       ELSE output
          /\ call' = <<args[1], output'[1]>>
          /\ mpc' = "convert"
          /\ UNCHANGED <<status, stdout>>
  /\ UNCHANGED <<argv, posixly_correct, opts, args>>
  /\ UNCHANGED <<textVars, substVars, convVars, symbols, doc, otherVars, runVars, findVars, cleanupVars>>

NextMain == MainGetopt \/ MainOptions \/ MainConvert

SpecMain == InitMain /\ [][NextMain]_vars

(***************************************************************************)
(* Properties of main (SpecMain)                                           *)
(***************************************************************************)

\* main has left: by sys.exit, or into convert_xacro_to_urdf
MainDone == mpc \in {"exited", "convert"}

HasOption(os, o) == \E i \in 1..Len(os) : os[i][1] = o
LastOption(os, o) == os[SetMax({i \in 1..Len(os) : os[i][1] = o})][2]

UsageAndExit(code) == stdout = <<UsageLine>> /\ status = code /\ call = None

\* C16: for every argument vector, (1) an unknown option, an option without
\* its argument, or no positional argument makes main print the usage line
\* and exit with status 2 without converting; (2) when the options parse
\* and -h is among them, main prints the usage line and exits with status
\* 0 without converting, a positional argument or none; (3) otherwise main
\* converts the first positional argument, to the value of -o when given,
\* else to that argument with its extension replaced by ".urdf".
C16_CommandLine ==
  MainDone =>
    IF gnu_getopt(argv, posixly_correct).error THEN UsageAndExit(2)
    ELSE IF HasOption(gnu_getopt(argv, posixly_correct).opts, OptionH) THEN UsageAndExit(0)
    ELSE IF gnu_getopt(argv, posixly_correct).args = <<>> THEN UsageAndExit(2)
    ELSE /\ stdout = <<>> /\ status = NoStatus
         /\ call[1] = gnu_getopt(argv, posixly_correct).args[1]
         /\ call[2] =
              IF HasOption(gnu_getopt(argv, posixly_correct).opts, OptionO)
              THEN LastOption(gnu_getopt(argv, posixly_correct).opts, OptionO)
              ELSE splitext_root(call[1]) \o UrdfExtension

\* -h after another option and no positional argument: usage, status 0
C16_Witness ==
  /\ argv = << <<"-", "o">>, <<"a">>, <<"-", "h">> >>
  /\ mpc = "exited"
  /\ status = 0
  /\ stdout = <<UsageLine>>
  /\ call = None

(***************************************************************************)
(* Specification of two conversions at once                                *)
(***************************************************************************)

\* convert_xacro_to_urdf called a second time, from another thread, while
\* the first call runs.  The second call has its own document and its own
\* locals; of its statements the ones below touch what the two calls share,
\* the module's list all_includes.
NameO == <<"o">>

InitShared ==
  /\ ConvInit
  /\ xacro_file = NameR /\ dest0 = NoOutput /\ dirExists /\ ~py312
  /\ CliIdle
  /\ RunIdle
  /\ FindIdle
  /\ CleanupIdle
  /\ other_includes \in {<<NameO>>, <<NameO, NameO>>}
  /\ opc = "clear"
  /\ oi = 0

\* all_includes.clear() of the second call
OtherClears ==
  /\ opc = "clear"
  /\ opc' = "include_loop"
  /\ all_includes' = <<>>
  /\ UNCHANGED <<other_includes, oi, cliVars, runVars, findVars, cleanupVars>>
  /\ UNCHANGED <<pc, err, previous, elt, namespaces, inVars, outVars, macros, symbols, doc,
                 textVars, substVars>>

\* all_includes.append(filename) of the second call's process_includes
OtherIncludes ==
  /\ opc = "include_loop"
  /\ oi < Len(other_includes)
  /\ oi' = oi + 1
  /\ all_includes' = Append(all_includes, other_includes[oi + 1])
  /\ UNCHANGED <<other_includes, opc, cliVars, runVars, findVars, cleanupVars>>
  /\ UNCHANGED <<pc, err, previous, elt, namespaces, inVars, outVars, macros, symbols, doc,
                 textVars, substVars>>

\* the second call's process_includes returns
OtherLeaves ==
  /\ opc = "include_loop"
  /\ oi = Len(other_includes)
  /\ opc' = "grab_macros"
  /\ UNCHANGED <<other_includes, oi, cliVars, runVars, findVars, cleanupVars, convVars, symbols, doc, textVars, substVars>>

NextShared == Next \/ OtherClears \/ OtherIncludes \/ OtherLeaves

SpecShared == InitShared /\ [][NextShared]_vars

(***************************************************************************)
(* Properties of two conversions at once (SpecShared)                      *)
(***************************************************************************)

\* The files a conversion includes, in the order in which process_includes
\* meets their include elements, the files included from an included file
\* right after it.  (Defined on includes that resolve and do not form a
\* cycle.)
RECURSIVE IncludeOrder(_, _)
IncludeOrder(kids, i) ==
  IF i > Len(kids) THEN <<>>
  ELSE IF kids[i].nodeType # "ELEMENT_NODE" THEN IncludeOrder(kids, i + 1)
  ELSE IF kids[i].tagName \in IncludeTags
  THEN <<PlainFilename(kids[i])>>
       \o IncludeOrder(
            child_elements(
              NodeAt(fs[PlainFilename(kids[i])].doc,
                     documentElement(fs[PlainFilename(kids[i])].doc))), 1)
       \o IncludeOrder(kids, i + 1)
  ELSE IncludeOrder(kids[i].childNodes, 1) \o IncludeOrder(kids, i + 1)

\* C17: a conversion shares no mutable state with another one: when two
\* calls of convert_xacro_to_urdf are interleaved, the include record of
\* each, at the return of its process_includes, holds the files that call
\* included, in order and with the repeats, whatever the other call
\* included and whenever it started.
C17_IncludeRecordIsolated ==
  /\ pc = "grab_macros" => all_includes = IncludeOrder(SourceRoot.childNodes, 1)
  /\ opc = "grab_macros" => all_includes = other_includes

(***************************************************************************)
(* Properties of process_includes: cycles (Spec)                           *)
(***************************************************************************)

\* The files the includes of a file name
Targets(filename) ==
  IF Readable(fs, filename) THEN FilenamesOf(fs[filename].doc) ELSE {}

\* The files reached from the files of S through includes
RECURSIVE Reached(_)
Reached(S) ==
  IF UNION {Targets(f) : f \in S} \subseteq S THEN S
  ELSE Reached(S \cup UNION {Targets(f) : f \in S})

\* A file that the conversion reaches includes itself, directly or through
\* a chain of includes that leads back to it.
IncludesItself(filename) == filename \in Reached(Targets(filename))
HasCycle ==
  /\ Readable(fs, xacro_file)
  /\ \E f \in Reached({xacro_file}) : IncludesItself(f)

\* Every include target is readable.
TargetsReadable == \A f \in Reached({xacro_file}) : Readable(fs, f)

\* Include resolution is under way: it has not returned and not raised, an
\* include element is still to be resolved and the destination file is as
\* it was.
Resolving ==
  /\ pc \in {"process_includes", "include_loop"}
  /\ err = NoError
  /\ IncludesIn(doc) # {}
  /\ dest = dest0

ParsedSource == pc \notin {"isfile", "makedirs", "parse"}

\* C18 as stated: if a file includes itself, directly or through a chain of
\* includes that leads back to it, include resolution never completes: in
\* every state reached another include element is still to be resolved,
\* the conversion never reaches substitution or serialization, never
\* writes the destination file, and the engine raises no error.
C18_CycleNeverCompletes ==
  (HasCycle /\ ParsedSource) => Resolving

\* C18, amended: the same, when every include target is readable.
C18_ReadableCycleNeverCompletes ==
  (HasCycle /\ TargetsReadable /\ ParsedSource) => Resolving

\* A file that includes itself, included for the third time
C18_Witness ==
  /\ fs[xacro_file].doc = OnlyIncludeDoc
  /\ fs[NameI].doc = SelfIncluded
  /\ all_includes = <<NameI, NameI, NameI>>
  /\ pc = "include_loop"
  /\ elt # NoNode
  /\ dest = dest0

(***************************************************************************)
(* Specification of the exporter (URDF_Exporter.run).  The timeline of the *)
(* design is a sequence of items; the item at position p has index p - 1.  *)
(* An item records how the Fusion build lets the script delete it and      *)
(* whether its component is named exported_...                             *)
(***************************************************************************)

MaxHistory == 2
MaxCopies == 2

\* How _delete_timeline_from_index_strict can delete an item: through
\* entity.deleteMe(), through object.deleteMe() when the entity has no
\* working deleteMe, or not at all ("skip": both are missing or raise).
DeleteHow == {"entity", "object", "skip"}

\* What the build accepts as tl.markerPosition: a timeline object, an
\* integer, or neither (both assignments raise).
MarkerBuilds == {"item", "index", "neither"}

TimelineItems == [how : DeleteHow, exported : BOOLEAN]

RECURSIVE TimelinesUpTo(_)
TimelinesUpTo(n) ==
  IF n = 0 THEN {<<>>}
  ELSE TimelinesUpTo(n - 1) \cup
       UNION {{Append(tl, item) : item \in TimelineItems} :
              tl \in {t \in TimelinesUpTo(n - 1) : Len(t) = n - 1}}

\* The components copy_occs adds: each a new timeline item named exported_...
CopiedItems == [how : DeleteHow, exported : {TRUE}]

\* The timeline without the item of index i
WithoutIndex(tl, i) == SubSeq(tl, 1, i) \o SubSeq(tl, i + 2, Len(tl))

\* The marker stays inside the timeline
Clamped(marker, tl) == IF marker > Len(tl) THEN Len(tl) ELSE marker

\* _move_marker_to_end: the marker position afterwards
move_marker_to_end(tl, marker, build) ==
  LET c == Len(tl)
  IN  IF c <= 0 THEN marker
      ELSE IF build = "item" THEN c
      ELSE IF build = "index" THEN c
      ELSE marker

\* for i in range(end_index, start_count - 1, -1): the timeline left and the
\* indexes deleted, in order
RECURSIVE delete_loop(_, _, _, _)
delete_loop(tl, i, start_count, log) ==
  IF i < start_count THEN [timeline |-> tl, deleted |-> log]
  ELSE IF tl[i + 1].how \in {"entity", "object"}
       THEN delete_loop(WithoutIndex(tl, i), i - 1, start_count, Append(log, i))
       ELSE delete_loop(tl, i - 1, start_count, log)

\* _delete_timeline_from_index_strict(design, start_count), start_count not None
delete_timeline_from_index_strict(tl, start_count) ==
  LET end_index == Len(tl) - 1
  IN  IF end_index < start_count THEN [timeline |-> tl, deleted |-> <<>>]
      ELSE delete_loop(tl, end_index, start_count, <<>>)

\* cleanup_copied_components: every component named exported_... whose
\* deleteMe does not raise is removed
RECURSIVE cleanup_copied_components(_)
cleanup_copied_components(tl) ==
  IF tl = <<>> THEN <<>>
  ELSE IF tl[1].exported /\ tl[1].how # "skip"
       THEN cleanup_copied_components(Tail(tl))
       ELSE <<tl[1]>> \o cleanup_copied_components(Tail(tl))

\* Before run is called
InitRun ==
  /\ TextIdle
  /\ SubstIdle
  /\ ConvIdle
  /\ symbols = NewTable
  /\ doc = Document(<<>>)
  /\ CliIdle
  /\ OtherIdle
  /\ FindIdle
  /\ CleanupIdle
  /\ timeline \in TimelinesUpTo(MaxHistory)
  /\ markerPosition \in 0 .. Len(timeline)
  /\ marker_build \in MarkerBuilds
  /\ need_rollback = FALSE
  /\ start_timeline_count = NoCount
  /\ design = FALSE
  /\ cleanup_components = FALSE
  /\ rpc = "initialize"
  /\ outcome = "running"
  /\ deleted = <<>>

notRun == <<textVars, substVars, convVars, symbols, doc, cliVars, otherVars, findVars, cleanupVars>>

\* Leave the try block for the finally block
Leave(how) ==
  /\ rpc' = "finally"
  /\ outcome' = how

\* Lines 193-219: the globals are reset, the design is obtained and the
\* start state recorded.  Application.get may raise, there may be no active
\* design, and design.timeline.count may raise.
RunInitialize ==
  /\ rpc = "initialize"
  /\ need_rollback' = TRUE
  /\ \/ /\ \E how \in {"raise", "no_design"} : Leave(how)
        /\ design' = FALSE
        /\ start_timeline_count' = NoCount
     \/ /\ design' = TRUE
        /\ start_timeline_count' \in {Len(timeline), NoCount}
        /\ rpc' = "prepare"
        /\ outcome' = outcome
  /\ UNCHANGED <<timeline, markerPosition, marker_build, cleanup_components, deleted>>
  /\ UNCHANGED notRun

\* Lines 223-266: the names, the folder dialog, the cleanup question and the
\* joint and inertial dictionaries, with the early returns
RunPrepare ==
  /\ rpc = "prepare"
  /\ \/ /\ \E how \in {"raise", "cancel", "joints", "inertial", "base_link"} : Leave(how)
        /\ UNCHANGED cleanup_components
     \/ /\ cleanup_components' \in BOOLEAN
        /\ rpc' = "write"
        /\ outcome' = outcome
  /\ UNCHANGED <<timeline, markerPosition, marker_build, need_rollback,
                 start_timeline_count, design, deleted>>
  /\ UNCHANGED notRun

\* Lines 272-283: the files of the package are written
RunWrite ==
  /\ rpc = "write"
  /\ \/ Leave("raise")
     \/ rpc' = "copy_occs" /\ outcome' = outcome
  /\ UNCHANGED <<timeline, markerPosition, marker_build, need_rollback,
                 start_timeline_count, design, cleanup_components, deleted>>
  /\ UNCHANGED notRun

\* Line 287, utils.copy_occs: components are added to the design, each a new
\* item at the end of the timeline; the call may raise after any of them
RunCopyOccs ==
  /\ rpc = "copy_occs"
  /\ \E copies \in {tl \in TimelinesUpTo(MaxCopies) :
                      \A p \in 1 .. Len(tl) : tl[p] \in CopiedItems} :
       /\ timeline' = timeline \o copies
       /\ markerPosition' = IF markerPosition = Len(timeline)
                            THEN Len(timeline) + Len(copies)
                            ELSE markerPosition
  /\ \/ Leave("raise")
     \/ rpc' = "export" /\ outcome' = outcome
  /\ UNCHANGED <<marker_build, need_rollback, start_timeline_count, design,
                 cleanup_components, deleted>>
  /\ UNCHANGED notRun

\* Lines 288-307: the STL export, the conversion of the xacro file and the
\* copy of the meshes
RunExport ==
  /\ rpc = "export"
  /\ \/ Leave("raise")
     \/ rpc' = "cleanup" /\ outcome' = outcome
  /\ UNCHANGED <<timeline, markerPosition, marker_build, need_rollback,
                 start_timeline_count, design, cleanup_components, deleted>>
  /\ UNCHANGED notRun

\* Lines 311-320: the copied components are cleaned up when asked, the
\* message is shown and the rollback flag is cleared
RunSuccess ==
  /\ rpc = "cleanup"
  /\ timeline' = IF cleanup_components THEN cleanup_copied_components(timeline)
                 ELSE timeline
  /\ markerPosition' = Clamped(markerPosition, timeline')
  /\ \/ Leave("raise") /\ UNCHANGED need_rollback
     \/ Leave("success") /\ need_rollback' = FALSE
  /\ UNCHANGED <<marker_build, start_timeline_count, design, cleanup_components, deleted>>
  /\ UNCHANGED notRun

\* Lines 327-373, the finally block
RunFinally ==
  /\ rpc = "finally"
  /\ rpc' = "done"
  /\ IF need_rollback /\ design
     THEN LET moved == move_marker_to_end(timeline, markerPosition, marker_build)
              left == IF start_timeline_count # NoCount
                      THEN delete_timeline_from_index_strict(timeline, start_timeline_count)
                      ELSE [timeline |-> timeline, deleted |-> <<>>]
          IN  /\ timeline' = left.timeline
              /\ deleted' = left.deleted
              /\ markerPosition' =
                   move_marker_to_end(left.timeline, Clamped(moved, left.timeline),
                                      marker_build)
     ELSE UNCHANGED <<timeline, markerPosition, deleted>>
  /\ UNCHANGED <<marker_build, need_rollback, start_timeline_count, design,
                 cleanup_components, outcome>>
  /\ UNCHANGED notRun

NextRun ==
  \/ RunInitialize
  \/ RunPrepare
  \/ RunWrite
  \/ RunCopyOccs
  \/ RunExport
  \/ RunSuccess
  \/ RunFinally

SpecRun == InitRun /\ [][NextRun]_vars

(***************************************************************************)
(* Properties of the exporter                                              *)
(***************************************************************************)

RunDone == rpc = "done"

\* The design was obtained and its timeline count recorded
Recorded19 == design /\ start_timeline_count # NoCount

\* The indexes, in the order deleted, go strictly downwards
Downwards(log) == \A p \in 1 .. Len(log) - 1 : log[p] > log[p + 1]

\* C19: once the design is obtained and its timeline count recorded, every
\* exit of run other than full success ends with the rollback done: the
\* marker at the end of the timeline, no item left at an index greater than
\* or equal to the recorded count, the items deleted from the highest index
\* downwards and none of them at a lower index; on full success the rollback
\* flag is cleared and the rollback deletes no item.
C19_RollbackOnEveryFailure ==
  RunDone =>
    /\ (Recorded19 /\ outcome # "success") =>
         /\ markerPosition = Len(timeline)
         /\ Len(timeline) <= start_timeline_count
         /\ Downwards(deleted)
         /\ \A p \in 1 .. Len(deleted) : deleted[p] >= start_timeline_count
    /\ outcome = "success" => (~need_rollback /\ deleted = <<>>)

(***************************************************************************)
(* Properties of the lexer                                                 *)
(***************************************************************************)

\* The tokens a lexer hands out: peek(), then next() until peek() is None
RECURSIVE TokenStream(_)
TokenStream(lex) ==
  IF QuickLexer_peek(lex) = None THEN <<>>
  ELSE <<QuickLexer_peek(lex)>> \o TokenStream(QuickLexer_next(lex))

\* The lexer once peek() is None
RECURSIVE Exhausted(_)
Exhausted(lex) ==
  IF QuickLexer_peek(lex) = None THEN lex ELSE Exhausted(QuickLexer_next(lex))

\* The texts of the tokens, joined
RECURSIVE JoinedTexts(_)
JoinedTexts(tokens) ==
  IF tokens = <<>> THEN <<>> ELSE tokens[1][2] \o JoinedTexts(Tail(tokens))

\* The token s starts with is the match of the first pattern that matches
FirstPattern(res, token, s) ==
  /\ token[1] + 1 \in 1 .. Len(res)
  /\ re_match(res[token[1] + 1], s) = Len(token[2])
  /\ token[2] = Take(s, Len(token[2]))
  /\ \A j \in 1 .. token[1] : re_match(res[j], s) = 0

\* Every token of the stream is the first pattern's match where it starts
RECURSIVE EachFirstPattern(_, _, _)
EachFirstPattern(res, tokens, s) ==
  \/ tokens = <<>>
  \/ /\ FirstPattern(res, tokens[1], s)
     /\ EachFirstPattern(res, Tail(tokens), Drop(s, Len(tokens[1][2])))

\* A lexer of the patterns res on the input s: the tokens are a prefix of
\* s, each the first pattern's match, and they end where no pattern matches,
\* after which next() changes nothing and peek() stays None
Lenient(res, s) ==
  LET lex == QuickLexer_lex(QuickLexer(res), s)
      tokens == TokenStream(lex)
      rest == Drop(s, Len(JoinedTexts(tokens)))
  IN  /\ StartsWith(s, JoinedTexts(tokens))
      /\ EachFirstPattern(res, tokens, s)
      /\ \A j \in 1 .. Len(res) : re_match(res[j], rest) = 0
      /\ Exhausted(lex).str = rest
      /\ QuickLexer_peek(QuickLexer_next(Exhausted(lex))) = None
      /\ QuickLexer_peek(QuickLexer_next(QuickLexer_next(Exhausted(lex)))) = None

\* The expressions of the spans "${...}" the text lexer finds in s
SpanExpressions(s) ==
  LET tokens == TokenStream(QuickLexer_lex(QuickLexer(TextPatterns), s))
  IN  {SubSeq(tokens[p][2], 3, Len(tokens[p][2]) - 1) :
         p \in {q \in 1 .. Len(tokens) : tokens[q][1] = 0}}

\* Where s has an unterminated "${" (no "}" after it) or its trailing "$"
CutPoints(s) ==
  {p \in 1 .. Len(s) :
     /\ s[p] = "$"
     /\ \/ p = Len(s)
        \/ s[p + 1] = "{" /\ \A k \in (p + 2) .. Len(s) : s[k] # "}"}

\* The part of s before the first of them
BeforeCut(s) == Take(s, (CHOOSE p \in CutPoints(s) : \A q \in CutPoints(s) : p <= q) - 1)

\* What the call of eval_text did
TextOutcome == [raised |-> tpc = "raised", key |-> terr, text |-> tout]

\* C20: the lexers of eval_text are lenient on every input (the tokens are a
\* prefix of the input, each the match of the first pattern that matches,
\* and once none matches peek() is None and stays None), and on a text with
\* an unterminated "${" or a trailing "$" eval_text does what it does on the
\* part of the text before it.
C20_LexerLenient ==
  tpc # "call" =>
    /\ Lenient(TextPatterns, text)
    /\ \A e \in SpanExpressions(text) : Lenient(ExprPatterns, e)
    /\ CutPoints(text) # {} => TextOutcome = eval_text(BeforeCut(text), symbols)

(***************************************************************************)
(* Properties of convert_xacro_to_urdf: the filesystem after a failure     *)
(***************************************************************************)

\* The call raised for a missing source, a malformed root document, an
\* include failure or an undefined symbol
FailureKinds == {"FileNotFoundError", "ExpatError", "XacroException", "KeyError"}
Failed == pc = "raised" /\ err.type \in FailureKinds

\* C23: a failed call of convert_xacro_to_urdf, whatever the kind of the
\* failure, leaves the filesystem as it was before the call: the destination
\* file is as it was, and the directory of the destination exists only if it
\* existed before.
C23_FailureLeavesFilesystem ==
  Failed => (dest = dest0 /\ dirExists = dirExists0)

(***************************************************************************)
(* Specification of _expand_find_substitutions.  A directory is the        *)
(* sequence of the names on its absolute path, the root the empty one; the *)
(* directory tree is the set of the directories that exist.                *)
(***************************************************************************)

MaxDepth == 2
MaxParts == 2

PkgP == <<"p">>
PkgQ == <<"q">>
DirD == <<"d">>
DirNames == {PkgP, PkgQ, DirD}

RECURSIVE DirsUpTo(_)
DirsUpTo(n) ==
  IF n = 0 THEN {<<>>}
  ELSE DirsUpTo(n - 1) \cup {Append(d, name) : d \in DirsUpTo(n - 1), name \in DirNames}

\* The directories on the way from the root to d, d included
Ancestors(d) == {SubSeq(d, 1, n) : n \in 0 .. Len(d)}

\* The absolute path of a directory, as a string
RECURSIVE PathString(_)
PathString(d) ==
  IF d = <<>> THEN <<"/">>
  ELSE (IF Len(d) = 1 THEN <<>> ELSE PathString(SubSeq(d, 1, Len(d) - 1)))
       \o <<"/">> \o d[Len(d)]

\* os.path.basename and os.path.dirname of a directory
basename(d) == IF d = <<>> THEN <<>> ELSE d[Len(d)]
dirname(d) == IF d = <<>> THEN <<>> ELSE SubSeq(d, 1, Len(d) - 1)

NotFound == [found |-> FALSE, dir |-> <<>>]
Found(d) == [found |-> TRUE, dir |-> d]

\* A variant that looks for the subdirectory before the name of the level
RECURSIVE find_subdirectory_first(_, _, _)
find_subdirectory_first(package_name, current, dirs) ==
  IF Append(current, package_name) \in dirs THEN Found(Append(current, package_name))
  ELSE IF basename(current) = package_name THEN Found(current)
  ELSE IF dirname(current) = current THEN NotFound
  ELSE find_subdirectory_first(package_name, dirname(current), dirs)

\* _find_package_dir(package_name, base_dir), from the directory current on
RECURSIVE find_package_dir(_, _, _)
find_package_dir(package_name, current, dirs) ==
  IF basename(current) = package_name THEN Found(current)
  ELSE IF Append(current, package_name) \in dirs THEN Found(Append(current, package_name))
  ELSE IF dirname(current) = current THEN NotFound
  ELSE find_package_dir(package_name, dirname(current), dirs)

\* _FIND_PATTERN = \$\(\s*find\s+([^\)\s]+)\s*\) at the start of s: the length
\* of the match (0 when there is none) and group 1
NoFindMatch == [len |-> 0, group |-> <<>>]
FindLetters == <<"f", "i", "n", "d">>
MatchFIND(s) ==
  IF ~(Len(s) >= 2 /\ s[1] = "$" /\ s[2] = "(") THEN NoFindMatch
  ELSE LET a == Drop(s, 2 + RunLen(Drop(s, 2), Whitespace))
       IN  IF ~StartsWith(a, FindLetters) THEN NoFindMatch
           ELSE LET b == Drop(a, 4)
                    w == RunLen(b, Whitespace)
                    c == Drop(b, w)
                    g == SetMax({n \in 0 .. Len(c) :
                                   \A i \in 1 .. n : c[i] \notin Whitespace \cup {")"}})
                    e == Drop(c, g)
                    t == RunLen(e, Whitespace)
                IN  IF w >= 1 /\ g >= 1 /\ Len(e) > t /\ e[t + 1] = ")"
                    THEN [len |-> Len(s) - Len(e) + t + 1, group |-> Take(c, g)]
                    ELSE NoFindMatch

\* repl(match)
repl(s, m, base, dirs) ==
  IF find_package_dir(m.group, base, dirs).found
  THEN PathString(find_package_dir(m.group, base, dirs).dir)
  ELSE Take(s, m.len)

\* _FIND_PATTERN.sub(repl, path_value)
RECURSIVE expand_find_substitutions(_, _, _)
expand_find_substitutions(s, base, dirs) ==
  IF s = <<>> THEN <<>>
  ELSE IF MatchFIND(s).len > 0
       THEN repl(s, MatchFIND(s), base, dirs)
            \o expand_find_substitutions(Drop(s, MatchFIND(s).len), base, dirs)
       ELSE <<s[1]>> \o expand_find_substitutions(Tail(s), base, dirs)

\* The parts a filename is written from: text, and tokens with their package
PartText(t) == [token |-> FALSE, text |-> t, package |-> <<>>]
PartToken(t, p) == [token |-> TRUE, text |-> t, package |-> p]

Parts ==
  { PartText(<<"/">>),
    PartText(<<"$", "(", "f", "i", "n", "d", " ", "p">>),
    PartText(<<"$", "(", "f", "i", "n", "d", "p", ")">>),
    PartText(<<"$", "(", "f", "i", "n", "d", " ", "p", " ", "q", ")">>),
    PartToken(<<"$", "(", "f", "i", "n", "d", " ", "p", ")">>, PkgP),
    PartToken(<<"$", "(", " ", "f", "i", "n", "d", " ", " ", "q", " ", ")">>, PkgQ),
    PartToken(<<"$", "(", "f", "i", "n", "d", "\t", "d", ")">>, DirD) }

RECURSIVE PartsUpTo(_)
PartsUpTo(n) ==
  IF n = 0 THEN {<<>>}
  ELSE PartsUpTo(n - 1) \cup {Append(ps, p) : ps \in PartsUpTo(n - 1), p \in Parts}

\* The filename as written
RECURSIVE Written(_)
Written(ps) == IF ps = <<>> THEN <<>> ELSE ps[1].text \o Written(Tail(ps))

InitFind ==
  /\ TextIdle
  /\ SubstIdle
  /\ ConvIdle
  /\ symbols = NewTable
  /\ doc = Document(<<>>)
  /\ CliIdle
  /\ OtherIdle
  /\ RunIdle
  /\ CleanupIdle
  /\ base_dir \in DirsUpTo(MaxDepth)
  /\ \E other \in DirsUpTo(MaxDepth + 1) : tree = Ancestors(base_dir) \cup Ancestors(other)
  /\ parts \in PartsUpTo(MaxParts)
  /\ path_value = Written(parts)
  /\ fpc = "call"
  /\ expanded = <<>>

\* filename = _expand_find_substitutions(filename, base_dir)
ExpandFind ==
  /\ fpc = "call"
  /\ fpc' = "returned"
  /\ expanded' = expand_find_substitutions(path_value, base_dir, tree)
  /\ UNCHANGED <<tree, base_dir, parts, path_value>>
  /\ UNCHANGED <<textVars, substVars, convVars, symbols, doc, cliVars, otherVars, runVars, cleanupVars>>

NextFind == ExpandFind

SpecFind == InitFind /\ [][NextFind]_vars

(***************************************************************************)
(* Properties of _expand_find_substitutions                                *)
(***************************************************************************)

\* What the level matches with: itself when it is named P, otherwise its
\* subdirectory named P when there is one
LevelMatches(level, P) == basename(level) = P \/ Append(level, P) \in tree
LevelMatch(level, P) == IF basename(level) = P THEN level ELSE Append(level, P)

\* The levels from base_dir up to the root that match
MatchingLevels(P) == {level \in Ancestors(base_dir) : LevelMatches(level, P)}

\* The nearest of them
Nearest(P) ==
  CHOOSE level \in MatchingLevels(P) : \A l \in MatchingLevels(P) : Len(l) <= Len(level)

\* What a part of the filename is to become
Resolved(part) ==
  IF part.token /\ MatchingLevels(part.package) # {}
  THEN PathString(LevelMatch(Nearest(part.package), part.package))
  ELSE part.text

RECURSIVE ResolvedAll(_)
ResolvedAll(ps) == IF ps = <<>> THEN <<>> ELSE Resolved(ps[1]) \o ResolvedAll(Tail(ps))

\* C21: every "$(find P)" token of the filename is replaced, each on its
\* own, by the match of the nearest level from base_dir up to the root (the
\* level itself when named P, otherwise its subdirectory named P), and is
\* left as written when no level matches; everything else stays as written.
C21_FindResolvesNearest ==
  fpc = "returned" => expanded = ResolvedAll(parts)

\* Two tokens in one filename, one resolved through a subdirectory of a
\* level above base_dir and one left as written
C21_Witness ==
  /\ fpc = "returned"
  /\ Len(parts) = 2 /\ parts[1].token /\ parts[2].token
  /\ MatchingLevels(parts[1].package) # {}
  /\ Len(Nearest(parts[1].package)) < Len(base_dir)
  /\ basename(Nearest(parts[1].package)) # parts[1].package
  /\ MatchingLevels(parts[2].package) = {}
  /\ expanded = PathString(Append(Nearest(parts[1].package), parts[1].package))
                  \o parts[2].text

(***************************************************************************)
(* Specification of the cleanup script (cleanup_components.run).  An       *)
(* occurrence is [name, how, exported]: the name of its component, whether *)
(* its deleteMe works ("entity") or raises ("skip"), and whether the name  *)
(* starts with exported_, as the names copy_occs gives do.                 *)
(***************************************************************************)

MaxOccs == 2

ExportedPrefix == <<"e", "x", "p", "o", "r", "t", "e", "d", "_">>
OldComponent == <<"o", "l", "d", "_", "c", "o", "m", "p", "o", "n", "e", "n", "t">>
Keywords == {<<"c", "o", "p", "y">>, <<"t", "e", "m", "p", "_">>, <<"d", "u", "p", "l", "i", "c", "a", "t", "e">>}

CompArm == <<"a", "r", "m">>
CompExportedArm == <<"e", "x", "p", "o", "r", "t", "e", "d", "_", "a", "r", "m">>
CompExportedCopy == <<"e", "x", "p", "o", "r", "t", "e", "d", "_", "c", "o", "p", "y">>
CompCopyOfArm == <<"C", "o", "p", "y", "_", "o", "f", "_", "a", "r", "m">>
CompOld == <<"o", "l", "d", "_", "c", "o", "m", "p", "o", "n", "e", "n", "t">>
CompTempArm == <<"t", "e", "m", "p", "_", "a", "r", "m">>
ComponentNames ==
  {CompArm, CompExportedArm, CompExportedCopy, CompCopyOfArm, CompOld, CompTempArm}

\* keyword in name
Contains(name, keyword) ==
  \E i \in 0 .. Len(name) - Len(keyword) : SubSeq(name, i + 1, i + Len(keyword)) = keyword

\* any(keyword in name.lower() for keyword in ['copy', 'temp_', 'duplicate'])
HasKeyword(name) == \E keyword \in Keywords : Contains(Lowered(name), keyword)

Occurrence(name, how) ==
  [name |-> name, how |-> how, exported |-> StartsWith(name, ExportedPrefix)]

Occurrences == {Occurrence(name, how) : name \in ComponentNames, how \in {"entity", "skip"}}

RECURSIVE OccurrencesUpTo(_)
OccurrencesUpTo(n) ==
  IF n = 0 THEN {<<>>}
  ELSE OccurrencesUpTo(n - 1) \cup
       {Append(os, o) : os \in OccurrencesUpTo(n - 1), o \in Occurrences}

\* Lines 30-35: the indexes put in copied_components and original_components
CopiedFound(occs) ==
  {i \in 1 .. Len(occs) : occs[i].name # OldComponent /\ HasKeyword(occs[i].name)}
OriginalFound(occs) == {i \in 1 .. Len(occs) : occs[i].name = OldComponent}

InitCleanup ==
  /\ TextIdle
  /\ SubstIdle
  /\ ConvIdle
  /\ symbols = NewTable
  /\ doc = Document(<<>>)
  /\ CliIdle
  /\ OtherIdle
  /\ RunIdle
  /\ FindIdle
  /\ allOccs \in OccurrencesUpTo(MaxOccs)
  /\ occurrences = allOccs
  /\ has_design \in BOOLEAN
  /\ answer \in {"Yes", "No"}
  /\ cpc = "count"
  /\ copied_components = {}
  /\ original_components = {}
  /\ said = "nothing"

notCleanup ==
  <<textVars, substVars, convVars, symbols, doc, cliVars, otherVars, runVars, findVars>>

\* Lines 13-39: the design is obtained and the components to clean counted
CleanupCount ==
  /\ cpc = "count"
  /\ IF ~has_design
     THEN /\ cpc' = "done" /\ said' = "no design"
          /\ UNCHANGED <<copied_components, original_components>>
     ELSE /\ copied_components' = CopiedFound(occurrences)
          /\ original_components' = OriginalFound(occurrences)
          /\ IF CopiedFound(occurrences) = {} /\ OriginalFound(occurrences) = {}
             THEN cpc' = "done" /\ said' = "none found"
             ELSE cpc' = "confirm" /\ said' = said
  /\ UNCHANGED <<allOccs, occurrences, has_design, answer>>
  /\ UNCHANGED notCleanup

\* Lines 42-57: the confirmation
CleanupConfirm ==
  /\ cpc = "confirm"
  /\ IF answer # "Yes"
     THEN cpc' = "done" /\ said' = "canceled"
     ELSE cpc' = "cleanup" /\ said' = said
  /\ UNCHANGED <<allOccs, occurrences, has_design, answer, copied_components,
                 original_components>>
  /\ UNCHANGED notCleanup

\* Lines 60-62: utils.cleanup_copied_components(root) and the report
CleanupPerform ==
  /\ cpc = "cleanup"
  /\ occurrences' = cleanup_copied_components(occurrences)
  /\ cpc' = "done"
  /\ said' = "cleaned up"
  /\ UNCHANGED <<allOccs, has_design, answer, copied_components, original_components>>
  /\ UNCHANGED notCleanup

NextCleanup == CleanupCount \/ CleanupConfirm \/ CleanupPerform

SpecCleanup == InitCleanup /\ [][NextCleanup]_vars

(***************************************************************************)
(* Properties of the cleanup script                                        *)
(***************************************************************************)

\* The copies the exporter made, and the occurrences of the start kept
ExportedCopies == {i \in 1 .. Len(allOccs) : allOccs[i].exported}
RECURSIVE Keeping(_, _, _)
Keeping(occs, i, kept) ==
  IF i > Len(occs) THEN <<>>
  ELSE (IF i \in kept THEN <<occs[i]>> ELSE <<>>) \o Keeping(occs, i + 1, kept)

\* C22: run on a design that holds copies made by the exporter, with Yes
\* answered to the confirmation, removes all of those copies, leaves every
\* other occurrence in place, and reports as found the occurrences it removes.
C22_CleanupRemovesCopies ==
  (cpc = "done" /\ has_design /\ answer = "Yes" /\ ExportedCopies # {}) =>
    /\ occurrences = Keeping(allOccs, 1, (1 .. Len(allOccs)) \ ExportedCopies)
    /\ copied_components = ExportedCopies
============================================================================
